---- MODULE Spec2Model ----
(***************************************************************************)
(* Model of the token security check of Safe_Token_Bot:                    *)
(*   CheckerManager.check_token -> EthTokenChecker.check_token ->          *)
(*   EthereumClient.get_token_information / check_token_security,          *)
(* with the owner-resolution chain, the liquidity inspection, the score    *)
(* and the two risk-tier computations.                                     *)
(***************************************************************************)
EXTENDS Integers, Sequences, FiniteSets, TLC

\* ------------------------------------------------------------------------
\* Bounds of the model
\* ------------------------------------------------------------------------

\* largest locked amount a locker contract answers with
MaxAmount == 1

\* largest number of fragments of a source text
MaxFragments == 4

\* largest number of functions of a source
\* the most checks of one address that are followed
MaxChecks == 2

\* the most sell-tax matches of a source
MaxMatches == 2

MaxFunctions == 2

\* ------------------------------------------------------------------------
\* Values: strings that may or may not be addresses
\* ------------------------------------------------------------------------

\* A string value is modelled by the facts the code reads from it: whether it
\* starts with 0x, the number of characters after that prefix, and whether all
\* of them are hexadecimal digits.  id tells two values apart.
Str(i, pre, k, h) == [id |-> i, p0x |-> pre, n |-> k, hex |-> h]

\* Python None
NoneV == Str("None", FALSE, 0, FALSE)

AddrA == Str("0xAAAA", TRUE, 40, TRUE)
AddrB == Str("0xBBBB", TRUE, 40, TRUE)
AddrC == Str("0xCCCC", TRUE, 40, TRUE)
AddrD == Str("0xDDDD", TRUE, 40, TRUE)
ZeroAddr == Str("0x0000", TRUE, 40, TRUE)
\* 0x followed by 38 hexadecimal digits: 40 characters, not an address
ShortLit == Str("0x38hex", TRUE, 38, TRUE)
\* a source expression such as msg.sender
ExprLit == Str("msg.sender", FALSE, 10, FALSE)
TokenAddr == Str("0xT0KEN", TRUE, 40, TRUE)
ImplAddr == Str("0x1MPL", TRUE, 40, TRUE)
BadAddr == Str("not-an-address", FALSE, 14, FALSE)

\* len(s)
StrLen(v) == IF v.p0x THEN v.n + 2 ELSE v.n

\* Python truthiness of a str-or-None value
Truthy(v) == v # NoneV /\ StrLen(v) > 0

\* Web3.is_address: 40 hexadecimal digits, with or without the 0x prefix
IsAddress(v) == v.hex /\ v.n = 40

\* dict.get(key, default)
Get(d, k, default) == IF k \in DOMAIN d THEN d[k] ELSE default

\* "error" in d
IsError(d) == "error" \in DOMAIN d

ErrorResult(msg) == [error |-> msg]

\* ------------------------------------------------------------------------
\* EthereumClient._calculate_security_score
\* ------------------------------------------------------------------------

Max(a, b) == IF a >= b THEN a ELSE b
Min(a, b) == IF a <= b THEN a ELSE b

\* the deductions made for the findings, before the liquidity is looked at
FindingsScore(sr) ==
    100 - (IF ~sr.is_verified THEN 50 ELSE 0)
        - (IF sr.is_honeypot THEN 100 ELSE 0)
        - (IF sr.has_self_destruct THEN 30 ELSE 0)
        - (IF sr.has_blacklist THEN 15 ELSE 0)
        - (IF sr.has_mint THEN 20 ELSE 0)
        - (IF sr.has_pause THEN 15 ELSE 0)
        - (IF sr.has_revoke THEN 25 ELSE 0)

LiquidityAdjustmentLockedIgnored(ls) ==
    IF Get(ls, "has_liquidity", FALSE) THEN 0 - 15 ELSE 0 - 10

\* the liquidity part of the score; ls may be an error value
LiquidityAdjustment(ls) ==
    IF Get(ls, "has_liquidity", FALSE)
    THEN (IF Get(ls, "is_locked", FALSE) THEN 10 ELSE 0 - 15)
    ELSE 0 - 10

ClampNoFloor(x) == Min(100, x)

\* max(0, min(100, base_score))
Clamp(x) == Max(0, Min(100, x))

CalculateSecurityScoreWithRenounce(sr) ==
    Clamp(FindingsScore(sr) + LiquidityAdjustment(sr.liquidity_status)
          - (IF sr.can_renounce_ownership THEN 5 ELSE 0))

CalculateSecurityScore(sr) ==
    Clamp(FindingsScore(sr) + LiquidityAdjustment(sr.liquidity_status))

\* ------------------------------------------------------------------------
\* The two risk tiers
\* ------------------------------------------------------------------------

B2N(b) == IF b THEN 1 ELSE 0

\* TelegramBot._format_security_results: dangerous_count
DangerousCount(security) ==
      B2N(~Get(security, "is_verified", TRUE))
    + B2N(Get(security, "has_mint", FALSE))
    + B2N(Get(security, "has_blacklist", FALSE))
    + B2N(Get(security, "has_pause", FALSE))
    + B2N(Get(security, "has_revoke", FALSE))
    + B2N(Get(security, "is_honeypot", FALSE))
    + B2N(Get(security, "has_self_destruct", FALSE))

BotRiskLevelByCountOnly(security) ==
    IF DangerousCount(security) >= 3 THEN "critical"
    ELSE IF DangerousCount(security) >= 1 THEN "high"
    ELSE "low"

\* TelegramBot._format_security_results: risk_level
BotRiskLevel(security) ==
    IF Get(security, "is_honeypot", FALSE) \/ ~Get(security, "is_verified", TRUE)
    THEN "critical"
    ELSE IF DangerousCount(security) >= 3 THEN "critical"
    ELSE IF DangerousCount(security) >= 1 THEN "high"
    ELSE "low"

DetermineRiskLevelShifted(security_result) ==
    LET score == Get(security_result, "security_score", 0)
    IN  IF score <= 20 THEN "critical"
        ELSE IF score <= 40 THEN "high"
        ELSE IF score <= 70 THEN "medium"
        ELSE IF score <= 90 THEN "low"
        ELSE "safe"

\* EthTokenChecker._determine_risk_level
DetermineRiskLevel(security_result) ==
    LET score == Get(security_result, "security_score", 0)
    IN  IF score < 20 THEN "critical"
        ELSE IF score < 40 THEN "high"
        ELSE IF score < 70 THEN "medium"
        ELSE IF score < 90 THEN "low"
        ELSE "safe"

\* EthTokenChecker._format_issues
FormatIssues(security_result) ==
    Get(security_result, "issues", <<>>)
    \o (IF Get(security_result, "is_honeypot", FALSE)
        THEN <<"Contract appears to be a honeypot">> ELSE <<>>)
    \o (IF ~Get(security_result, "is_verified", TRUE)
        THEN <<"Contract is not verified on Etherscan">> ELSE <<>>)

\* ------------------------------------------------------------------------
\* EthereumClient.check_liquidity_pools
\* ------------------------------------------------------------------------

\* the factories _check_dex_pairs queries, in the order it queries them
DexNames == <<"Uniswap V2", "SushiSwap">>

\* self.locker_addresses, in the dict's iteration order
LockerNames == <<"unicrypt", "team_finance", "pink_lock">>

\* what a remote call can do: raise, or return a number
Fails == [ok |-> FALSE, val |-> 0]
Returns(v) == [ok |-> TRUE, val |-> v]

\* the pair address a factory answers with
PairOf(dex) == Str(dex, TRUE, 40, TRUE)

\* the result dict of check_liquidity_pools before any call
NewLiquidityResult ==
    [has_liquidity |-> FALSE, pools |-> <<>>, is_locked |-> FALSE,
     lock_info |-> <<>>, total_liquidity_usd |-> 0]

\* the body of "if pair != zero address": the flag and the appended pool
AddPool(result, dex) ==
    [result EXCEPT !.has_liquidity = TRUE,
                   !.pools = Append(@, [dex |-> dex, pair_address |-> PairOf(dex),
                                        pair_type |-> "TOKEN/WETH"])]

AddLockEntryOnly(result, entry) ==
    [result EXCEPT !.is_locked = "pool" \notin DOMAIN entry \/ @,
                   !.lock_info = Append(@, entry)]

\* the body of "if locked > 0": the flag and the appended entry
AddLock(result, entry) ==
    [result EXCEPT !.is_locked = TRUE, !.lock_info = Append(@, entry)]

\* one getPair call: fac[dex] is "raise", "zero" (the zero address) or "pair"
RECURSIVE DexPairsFrom(_, _, _)
DexPairsFrom(i, fac, result) ==
    IF i > Len(DexNames) THEN [raised |-> FALSE, result |-> result]
    ELSE LET dex == DexNames[i]
         IN  IF fac[dex] = "raise" THEN [raised |-> TRUE, result |-> result]
             ELSE DexPairsFrom(i + 1, fac,
                               IF fac[dex] = "pair" THEN AddPool(result, dex) ELSE result)

\* _check_dex_pairs: an exception of a getPair call is not caught here
CheckDexPairs(fac, result) == DexPairsFrom(1, fac, result)

\* the loop over result["pools"] inside one locker's try block
RECURSIVE LockedPoolsFrom(_, _, _, _)
LockedPoolsFrom(i, locker, result, lp) ==
    IF i > Len(result.pools) THEN result
    ELSE LET locked_lp == lp[locker][result.pools[i].dex]
         IN  IF ~locked_lp.ok THEN result
             ELSE LockedPoolsFrom(i + 1, locker,
                     IF locked_lp.val > 0
                     THEN AddLock(result, [locker |-> locker, pool |-> result.pools[i].dex,
                                           amount |-> locked_lp.val])
                     ELSE result,
                     lp)

\* the body of the try block for one locker: the token first, then the pools;
\* an exception ends this locker's block and keeps what was appended before
LockerEntries(locker, result, tok, lp) ==
    LET locked_amount == tok[locker]
    IN  IF ~locked_amount.ok THEN result
        ELSE LockedPoolsFrom(1, locker,
                IF locked_amount.val > 0
                THEN AddLock(result, [locker |-> locker, amount |-> locked_amount.val])
                ELSE result,
                lp)

RECURSIVE LiquidityLocksStopAtFailure(_, _, _, _)
LiquidityLocksStopAtFailure(i, result, tok, lp) ==
    IF i > Len(LockerNames) THEN result
    ELSE IF ~tok[LockerNames[i]].ok THEN result
    ELSE LiquidityLocksStopAtFailure(i + 1, LockerEntries(LockerNames[i], result, tok, lp),
                                     tok, lp)

RECURSIVE LiquidityLocksFrom(_, _, _, _)
LiquidityLocksFrom(i, result, tok, lp) ==
    IF i > Len(LockerNames) THEN result
    ELSE LiquidityLocksFrom(i + 1, LockerEntries(LockerNames[i], result, tok, lp), tok, lp)

\* _check_liquidity_locks: the result dict with the locks it found
CheckLiquidityLocks(result, tok, lp) == LiquidityLocksFrom(1, result, tok, lp)

\* check_liquidity_pools
CheckLiquidityPools(connected, fac, tok, lp) ==
    IF ~connected THEN ErrorResult("Web3 connection not available")
    ELSE LET dex == CheckDexPairs(fac, NewLiquidityResult)
         IN  IF dex.raised THEN ErrorResult("getPair failed")
             ELSE CheckLiquidityLocks(dex.result, tok, lp)

\* ------------------------------------------------------------------------
\* Owner resolution: EthereumClient._find_contract_owner and its strategies
\* ------------------------------------------------------------------------

\* self.owner_methods
owner_methods ==
    <<"owner", "getOwner", "admin", "getAdmin", "governance",
      "authority", "manager", "controller", "masterMinter",
      "administrator", "adminAddress", "contractOwner", "creator",
      "deployer", "dev", "treasury", "team", "operator",
      "master", "executor", "moderator", "superAdmin", "supervisor">>

\* the function names of self.erc20_abi
erc20_abi == {"transfer", "balanceOf", "decimals", "totalSupply", "symbol", "name"}

\* a call that reverts or cannot be decoded
Revert == Str("revert", FALSE, 0, FALSE)

\* method().call() on the contract at the token's address: what the chain
\* answers does not depend on the ABI the binding was built with
CallGetter(getter, method) ==
    IF method \in DOMAIN getter THEN getter[method] ELSE Revert

RECURSIVE OwnerMethodsFrom(_, _, _)
OwnerMethodsFrom(i, abi, getter) ==
    IF i > Len(owner_methods) THEN NoneV
    ELSE LET method == owner_methods[i]
             owner_address == CallGetter(getter, method)
         IN  IF method \in abi /\ owner_address # Revert
                /\ Truthy(owner_address) /\ IsAddress(owner_address)
             THEN owner_address
             ELSE OwnerMethodsFrom(i + 1, abi, getter)

\* _check_owner_methods(contract): hasattr(contract.functions, method) holds
\* exactly for the function names of the ABI the contract was bound with
CheckOwnerMethods(abi, getter) == OwnerMethodsFrom(1, abi, getter)

\* an ABI string of the registry
NotVerifiedAbi == [verified |-> FALSE, parses |-> FALSE, methods |-> {}]
VerifiedAbi(ms) == [verified |-> TRUE, parses |-> TRUE, methods |-> ms]
MalformedAbi == [verified |-> TRUE, parses |-> FALSE, methods |-> {}]

\* the smallest length of a source literal the source-text strategy accepts
LiteralMinLen == 40

\* owner_param.startswith('0x') and len(owner_param) >= 40
LooksLikeAddressLiteral(v) == v.p0x /\ StrLen(v) >= LiteralMinLen

\* the state-variable patterns, in list order
StateVarNames == <<"owner", "admin", "governance", "_owner">>

RECURSIVE StateVarsFrom(_, _)
StateVarsFrom(i, source_code) ==
    IF i > Len(StateVarNames) THEN NoneV
    ELSE LET owner_value == source_code.state_vars[StateVarNames[i]]
         IN  IF owner_value # NoneV /\ LooksLikeAddressLiteral(owner_value)
             THEN owner_value
             ELSE StateVarsFrom(i + 1, source_code)

\* the source-text part of _check_source_code_for_owner
SourceTextOwner(source_code) ==
    IF source_code.empty THEN NoneV
    ELSE IF source_code.ownable /\ source_code.ctor_transfer # NoneV
            /\ LooksLikeAddressLiteral(source_code.ctor_transfer)
         THEN source_code.ctor_transfer
         ELSE StateVarsFrom(1, source_code)

\* _check_source_code_for_owner
CheckSourceCodeForOwner(reg, getter) ==
    IF reg.lib_raises THEN NoneV
    ELSE IF Len(reg.source_info) = 0 THEN NoneV
    ELSE LET info == reg.source_info[1]
         IN  IF info.ABI.verified /\ info.ABI.parses
             THEN CheckOwnerMethods(info.ABI.methods, getter)
             ELSE SourceTextOwner(info.SourceCode)

\* one aiohttp request answers with a usable body only when the HTTP status
\* is 200, the body is JSON, and its status field is "1"
Usable(resp) == resp = "ok"

\* the second half of _check_proxy_implementation: the registry's
\* Implementation field
RegistryProxyOwner(reg, getter) ==
    IF ~Usable(reg.api["proxy"]) \/ Len(reg.source_info) = 0 THEN NoneV
    ELSE LET info == reg.source_info[1]
         IN  IF Truthy(info.Implementation) /\ IsAddress(info.Implementation)
                /\ Usable(reg.api["impl"])
                /\ reg.impl_abi.verified
                /\ info.ABI.verified /\ info.ABI.parses /\ reg.impl_abi.parses
             THEN CheckOwnerMethods(info.ABI.methods \cup reg.impl_abi.methods, getter)
             ELSE NoneV

CheckProxyImplementationRegistryOnly(reg, slot, getter) == RegistryProxyOwner(reg, getter)

\* _check_proxy_implementation: the EIP-1967 slot first
CheckProxyImplementation(reg, slot, getter) ==
    IF slot = "impl" /\ Usable(reg.api["impl"])
       /\ reg.impl_abi.verified /\ reg.impl_abi.parses
    THEN CheckOwnerMethods(reg.impl_abi.methods, getter)
    ELSE RegistryProxyOwner(reg, getter)

\* "0x" + topic[-40:]
Low20(topic) ==
    IF topic.n >= 40 THEN Str(topic.id, TRUE, 40, topic.hex)
    ELSE Str(topic.id, TRUE, StrLen(topic), FALSE)

\* the 32-byte topic that holds an address, left-padded with zeros
Topic(addr) == Str(addr.id, TRUE, 64, addr.hex)

CheckOwnershipEventsOldestFirst(reg) ==
    IF ~Usable(reg.api["events"]) \/ Len(reg.logs) = 0 THEN NoneV
    ELSE LET first_valid ==
                 {i \in 1..Len(reg.logs) :
                     Len(reg.logs[i]) >= 3 /\ IsAddress(Low20(reg.logs[i][3]))}
         IN  IF first_valid = {} THEN NoneV
             ELSE Low20(reg.logs[CHOOSE i \in first_valid :
                                    \A j \in first_valid : i <= j][3])

\* _check_ownership_events
CheckOwnershipEvents(reg) ==
    IF ~Usable(reg.api["events"]) \/ Len(reg.logs) = 0 THEN NoneV
    ELSE LET latest_event == reg.logs[Len(reg.logs)]
         IN  IF Len(latest_event) >= 3 /\ IsAddress(Low20(latest_event[3]))
             THEN Low20(latest_event[3])
             ELSE NoneV

\* _check_contract_creator
CheckContractCreator(reg) ==
    IF Usable(reg.api["creator"]) /\ IsAddress(reg.creator)
    THEN reg.creator
    ELSE NoneV

\* ------------------------------------------------------------------------
\* Source text.  A text is a sequence of characters; the state keeps it as a
\* sequence of fragment names, and Chars gives the characters.
\* ------------------------------------------------------------------------

\* the characters of one fragment
Fragment(name) ==
    CASE name = "//" -> <<"/", "/">>
      [] name = "/*" -> <<"/", "*">>
      [] name = "*/" -> <<"*", "/">>
      [] name = "newline" -> <<"\n">>
      [] name = "code" -> <<"x", ";", " ">>
      [] name = "long" -> [i \in 1..40 |-> "x"]
      [] name = "selfdestruct(" ->
            <<"s", "e", "l", "f", "d", "e", "s", "t", "r", "u", "c", "t", "(">>
      [] name = "function renounceOwnership" ->
            <<"f", "u", "n", "c", "t", "i", "o", "n", " ", "r", "e", "n", "o",
            "u", "n", "c", "e", "O", "w", "n", "e", "r", "s", "h", "i",
            "p">>
      [] name = "burn" ->
            <<"b", "u", "r", "n">>
      [] name = "_burn" ->
            <<"_", "b", "u", "r", "n">>
      [] name = "transfer" ->
            <<"t", "r", "a", "n", "s", "f", "e", "r">>
      [] name = "mint" ->
            <<"m", "i", "n", "t">>
      [] name = "_mint" ->
            <<"_", "m", "i", "n", "t">>
      [] name = "constructor" ->
            <<"c", "o", "n", "s", "t", "r", "u", "c", "t", "o", "r">>
      [] name = "_burn(a);" ->
            <<"_", "b", "u", "r", "n", "(", "a", ")", ";">>
      [] name = "totalSupply -= a;" ->
            <<"t", "o", "t", "a", "l", "S", "u", "p", "p", "l", "y", " ",
              "-", "=", " ", "a", ";">>
      [] name = "balances[to] += a;" ->
            <<"b", "a", "l", "a", "n", "c", "e", "s", "[", "t", "o", "]",
              " ", "+", "=", " ", "a", ";">>
      [] name = "_mint(a);" ->
            <<"_", "m", "i", "n", "t", "(", "a", ")", ";">>
      [] name = "totalSupply += a;" ->
            <<"t", "o", "t", "a", "l", "S", "u", "p", "p", "l", "y", " ",
              "+", "=", " ", "a", ";">>
      [] name = "/* internal */ totalSupply += a;" ->
            <<"/", "*", " ", "i", "n", "t", "e", "r", "n", "a", "l", " ",
              "*", "/", " ", "t", "o", "t", "a", "l", "S", "u", "p", "p",
              "l", "y", " ", "+", "=", " ", "a", ";">>
      [] name = "_mint(a); _burn(a); _burn(a);" ->
            <<"_", "m", "i", "n", "t", "(", "a", ")", ";", " ", "_", "b",
              "u", "r", "n", "(", "a", ")", ";", " ", "_", "b", "u", "r",
              "n", "(", "a", ")", ";">>
      [] name = "_mint(a); _mint(a); _burn(a);" ->
            <<"_", "m", "i", "n", "t", "(", "a", ")", ";", " ", "_", "m",
              "i", "n", "t", "(", "a", ")", ";", " ", "_", "b", "u", "r",
              "n", "(", "a", ")", ";">>
      [] name = "ERC20" ->
            <<"E", "R", "C", "2", "0">>
      [] name = "ERC20Burnable" ->
            <<"E", "R", "C", "2", "0", "B", "u", "r", "n", "a", "b", "l",
              "e">>
      [] name = "ERC20Mintable" ->
            <<"E", "R", "C", "2", "0", "M", "i", "n", "t", "a", "b", "l",
              "e">>

RECURSIVE Chars(_)
Chars(text) ==
    IF text = <<>> THEN <<>> ELSE Fragment(Head(text)) \o Chars(Tail(text))

\* str.lower(), on the letters the fragments hold in upper case
LowerChar(c) ==
    CASE c = "B" -> "b"
      [] c = "C" -> "c"
      [] c = "E" -> "e"
      [] c = "M" -> "m"
      [] c = "O" -> "o"
      [] c = "R" -> "r"
      [] c = "S" -> "s"
      [] OTHER -> c

LowerChars(s) == [i \in 1..Len(s) |-> LowerChar(s[i])]

\* s[a:b], positions counted from 0
Slice(s, a, b) == SubSeq(s, a + 1, Min(b, Len(s)))

\* sub occurs in s at position p (counted from 0)
MatchAt(s, sub, p) ==
    /\ p >= 0
    /\ p + Len(sub) <= Len(s)
    /\ \A k \in 1..Len(sub) : s[p + k] = sub[k]

\* s.find(sub, start)
Find(s, sub, start) ==
    LET hits == {p \in start..(Len(s) - Len(sub)) : MatchAt(s, sub, p)}
    IN  IF hits = {} THEN 0 - 1
        ELSE CHOOSE p \in hits : \A q \in hits : p <= q

\* s.rfind(sub, start, end)
RFind(s, sub, start, end) ==
    LET hits == {p \in start..(Min(end, Len(s)) - Len(sub)) : MatchAt(s, sub, p)}
    IN  IF hits = {} THEN 0 - 1
        ELSE CHOOSE p \in hits : \A q \in hits : p >= q

\* sub in s
Contains(s, sub) == Find(s, sub, 0) # 0 - 1

\* the number of characters _check_selfdestruct takes on each side of a match
SelfdestructContext == 30

\* the number of characters _find_matches_excluding_comments takes on each
\* side of a match
MatchContext == 10

\* the terms of _check_selfdestruct, which are also the alternatives of
\* self.selfdestruct_pattern
selfdestruct_terms ==
    <<<<"s", "e", "l", "f", "d", "e", "s", "t", "r", "u", "c", "t", "(">>,
      <<"s", "u", "i", "c", "i", "d", "e", "(">>,
      <<"s", "e", "l", "f", ".", "d", "e", "s", "t", "r", "u", "c", "t">>,
      <<"d", "e", "s", "t", "r", "o", "y", "(", "a", "d", "d", "r", "e",
      "s", "s">>>>

\* "Skip if in comment": the test made on the context of the match at idx
SelfdestructSkipped(contract_source, term, idx) ==
    LET ctx_start == Max(0, idx - SelfdestructContext)
        ctx_end   == Min(Len(contract_source), idx + Len(term) + SelfdestructContext)
        context   == Slice(contract_source, ctx_start, ctx_end)
        at        == Find(LowerChars(context), term, 0)
        before    == Slice(context, 0, at)
        after     == Slice(context, at, Len(context))
    IN  \/ Contains(before, <<"/", "/">>)
        \/ (Contains(before, <<"/", "*">>) /\ Contains(after, <<"*", "/">>))

\* the while loop of _check_selfdestruct for one term: TRUE when an
\* occurrence is not skipped
RECURSIVE SelfdestructScan(_, _, _)
SelfdestructScan(contract_source, term, start_idx) ==
    LET idx == Find(LowerChars(contract_source), term, start_idx)
    IN  IF idx = 0 - 1 THEN FALSE
        ELSE IF SelfdestructSkipped(contract_source, term, idx)
        THEN SelfdestructScan(contract_source, term, idx + Len(term))
        ELSE TRUE

\* _check_selfdestruct: the pattern search, then the loop over the terms
SelfdestructFound(contract_source) ==
    /\ \E i \in 1..Len(selfdestruct_terms) :
          Contains(LowerChars(contract_source), selfdestruct_terms[i])
    /\ \E i \in 1..Len(selfdestruct_terms) :
          SelfdestructScan(contract_source, selfdestruct_terms[i], 0)

\* _find_matches_excluding_comments from start_idx on: the contexts kept
RECURSIVE FindMatchesFrom(_, _, _)
FindMatchesFrom(source_code, pattern, start_idx) ==
    LET source_lower  == LowerChars(source_code)
        pattern_lower == LowerChars(pattern)
        idx == Find(source_lower, pattern_lower, start_idx)
    IN  IF idx = 0 - 1 THEN <<>>
        ELSE LET line_start == RFind(source_lower, <<"\n">>, 0, idx) + 1
                 comment_start == RFind(source_lower, <<"/", "/">>, line_start, idx)
                 block_comment_start == RFind(source_lower, <<"/", "*">>, 0, idx)
                 block_comment_end == RFind(source_lower, <<"*", "/">>, 0, idx)
                 in_block_comment == block_comment_start > block_comment_end
                 ctx_start == Max(0, idx - MatchContext)
                 ctx_end == Min(Len(source_code), idx + Len(pattern) + MatchContext)
             IN  (IF comment_start = 0 - 1 /\ ~in_block_comment
                  THEN <<Slice(source_code, ctx_start, ctx_end)>>
                  ELSE <<>>)
                 \o FindMatchesFrom(source_code, pattern, idx + Len(pattern_lower))

FindMatchesExcludingComments(source_code, pattern) ==
    FindMatchesFrom(source_code, pattern, 0)

\* the patterns of _check_ownership_renouncing
renounce_patterns ==
    <<<<"f", "u", "n", "c", "t", "i", "o", "n", " ", "r", "e", "n", "o",
      "u", "n", "c", "e", "o", "w", "n", "e", "r", "s", "h", "i",
      "p">>,
      <<"f", "u", "n", "c", "t", "i", "o", "n", " ", "t", "r", "a", "n",
      "s", "f", "e", "r", "o", "w", "n", "e", "r", "s", "h", "i",
      "p">>>>

\* mint_function_names of _check_mint_capability
mint_function_names ==
    <<<<"m", "i", "n", "t">>,
      <<"_", "m", "i", "n", "t">>,
      <<"m", "i", "n", "t", "t", "o", "k", "e", "n">>,
      <<"c", "r", "e", "a", "t", "e", "n", "e", "w", "t", "o", "k", "e", "n">>,
      <<"c", "r", "e", "a", "t", "e">>,
      <<"i", "s", "s", "u", "e">>>>

\* mint_patterns of _check_mint_capability
mint_patterns ==
    <<<<"_", "m", "i", "n", "t", "(">>,
      <<"m", "i", "n", "t", "(">>,
      <<"t", "o", "t", "a", "l", "S", "u", "p", "p", "l", "y", " ", "+", "=">>,
      <<"t", "o", "t", "a", "l", "S", "u", "p", "p", "l", "y", ".", "a", "d",
  "d">>>>

\* self.function_pattern.findall(contract_source): the (name, body) pairs;
\* header is what stands between the parameter list and the body
FuncName(f) == Fragment(f.name)
FuncBody(f) == Fragment(f.body)

\* _is_internal_function_exposed: a public or external function whose body
\* calls internal_func_name
IsInternalFunctionExposed(functions, internal_func_name) ==
    \E i \in 1..Len(functions) :
       /\ functions[i].header \in {"public", "external"}
       /\ Contains(LowerChars(FuncBody(functions[i])),
                   LowerChars(internal_func_name) \o <<"(">>)

\* "any(mint_name in func_name.lower() ...)"
HasMintName(func_name) ==
    \E k \in 1..Len(mint_function_names) :
       Contains(LowerChars(func_name), mint_function_names[k])

\* "Skip internal functions that can't be called directly"
SkippedAsInternal(functions, f) ==
    /\ Contains(LowerChars(FuncBody(f)), <<"i", "n", "t", "e", "r", "n", "a", "l">>)
    /\ ~Contains(LowerChars(FuncBody(f)), <<"e", "x", "t", "e", "r", "n", "a", "l">>)
    /\ ~Contains(LowerChars(FuncBody(f)), <<"p", "u", "b", "l", "i", "c">>)
    /\ ~IsInternalFunctionExposed(functions, FuncName(f))

\* the first loop of _check_mint_capability: the function names
MintInNames(functions) ==
    \E i \in 1..Len(functions) :
       HasMintName(FuncName(functions[i])) /\ ~SkippedAsInternal(functions, functions[i])

MintInBodiesAnySupplyChange(functions) ==
    \E i \in 1..Len(functions) :
       Contains(LowerChars(FuncBody(functions[i])),
                <<"t", "o", "t", "a", "l", "s", "u", "p", "p", "l", "y">>)

\* the second loop of _check_mint_capability: the mint patterns in the
\* bodies of the functions that are neither the constructor nor named
\* after burning or destroying
MintInBodies(functions) ==
    \E i \in 1..Len(functions) :
       /\ LowerChars(FuncName(functions[i])) # Fragment("constructor")
       /\ ~Contains(LowerChars(FuncName(functions[i])), <<"b", "u", "r", "n">>)
       /\ ~Contains(LowerChars(FuncName(functions[i])),
                    <<"d", "e", "s", "t", "r", "o", "y">>)
       /\ \E k \in 1..Len(mint_patterns) :
             Contains(LowerChars(FuncBody(functions[i])), LowerChars(mint_patterns[k]))

\* the mintable_patterns of _check_mint_capability, searched in the line
\* "contract ... is <bases>": a base whose name holds Mintable
MintableInherited(bases) ==
    \E i \in 1..Len(bases) :
       Contains(LowerChars(Fragment(bases[i])),
                <<"m", "i", "n", "t", "a", "b", "l", "e">>)

\* ------------------------------------------------------------------------
\* The detectors of _run_security_checks.  A detector is a function of the
\* source text alone; source_code.patterns records, per detector, whether
\* the text holds what that detector looks for; the self-destruct and the
\* ownership detectors read the characters of source_code.text, the mint
\* detector the functions and the base contracts of the source.
\* ------------------------------------------------------------------------

Flag(sr, field, issue) ==
    [sr EXCEPT ![field] = TRUE, !.issues = Append(@, issue)]

CheckSelfdestruct(source_code, sr) ==
    IF SelfdestructFound(Chars(source_code.text))
    THEN Flag(sr, "has_self_destruct", "Contract contains selfdestruct function")
    ELSE sr

CheckBlacklist(source_code, sr) ==
    IF source_code.patterns.blacklist
    THEN Flag(sr, "has_blacklist", "Contract contains blacklist/blocklist function")
    ELSE sr

CheckPauseFunction(source_code, sr) ==
    IF source_code.patterns.pause
    THEN Flag(sr, "has_pause", "Contract can pause trading/transfers")
    ELSE sr

CheckRevokeFunctions(source_code, sr) ==
    IF source_code.patterns.revoke
    THEN Flag(sr, "has_revoke", "Contract can revoke/revert transactions")
    ELSE sr

CheckOwnershipRenouncing(source_code, sr) ==
    IF \E i \in 1..Len(renounce_patterns) :
          FindMatchesExcludingComments(Chars(source_code.text), renounce_patterns[i]) # <<>>
    THEN [sr EXCEPT !.can_renounce_ownership = TRUE]
    ELSE sr

CheckMintCapability(source_code, sr) ==
    IF MintInNames(source_code.functions) \/ MintInBodies(source_code.functions)
    THEN Flag(sr, "has_mint", "Contract contains function to mint additional tokens")
    ELSE IF MintableInherited(source_code.bases)
    THEN Flag(sr, "has_mint", "Contract inherits from a mintable token contract")
    ELSE sr

\* int(match) for a match of (\d+)
DigitValue(c) ==
    CASE c = "0" -> 0 [] c = "1" -> 1 [] c = "2" -> 2 [] c = "3" -> 3 [] c = "4" -> 4
      [] c = "5" -> 5 [] c = "6" -> 6 [] c = "7" -> 7 [] c = "8" -> 8 [] c = "9" -> 9

RECURSIVE ParseInt(_)
ParseInt(digits) ==
    IF digits = <<>> THEN 0
    ELSE 10 * ParseInt(SubSeq(digits, 1, Len(digits) - 1)) + DigitValue(digits[Len(digits)])

\* "if tax_value > 25"
SellTaxLimit == 25

SuspiciousTaxFrom25(tax_value) == tax_value >= SellTaxLimit

SuspiciousTax(tax_value) == tax_value > SellTaxLimit

\* the matches of the sell_tax_patterns, in the order the loops visit them,
\* from position i on: the first value above the limit, or -1
RECURSIVE FirstHighTax(_, _)
FirstHighTax(matches, i) ==
    IF i > Len(matches) THEN 0 - 1
    ELSE IF SuspiciousTax(ParseInt(matches[i])) THEN ParseInt(matches[i])
    ELSE FirstHighTax(matches, i + 1)

\* f"Potential honeypot: High sell tax ({tax_value}%)"
HighTaxIssue(tax_value) ==
    CASE tax_value = 25 -> "Potential honeypot: High sell tax (25%)"
      [] tax_value = 26 -> "Potential honeypot: High sell tax (26%)"
      [] tax_value = 90 -> "Potential honeypot: High sell tax (90%)"
      [] tax_value = 100 -> "Potential honeypot: High sell tax (100%)"

CheckHoneypotIndicators(source_code, sr) ==
    IF source_code.patterns.honeypot
    THEN Flag(sr, "is_honeypot", "Potential honeypot indicator found")
    ELSE LET tax_value == FirstHighTax(source_code.sell_matches, 1)
         IN  IF tax_value # 0 - 1
             THEN Flag(sr, "is_honeypot", HighTaxIssue(tax_value))
             ELSE sr

\* ------------------------------------------------------------------------
\* State
\* ------------------------------------------------------------------------

VARIABLES
    request,          \* [token_address, blockchain]: the arguments of the check
    config,           \* [web3, etherscan]: what EthereumClient.__init__ found
    registry,         \* what Etherscan answers about the token
    chain,            \* what the chain answers about the token
    pcMain,           \* position of CheckerManager / EthTokenChecker.check_token
    pcInfo,           \* position of the get_token_information task
    pcSec,            \* position of the check_token_security task
    token_info,       \* the dict get_token_information builds and returns
    owner_address,    \* the local of _find_contract_owner
    strategy_log,     \* the strategies invoked so far, each with what it returned
    security_result,  \* the dict check_token_security builds and returns
    result,           \* what check_token returned
    risk_shown,       \* the risk tier TelegramBot._format_security_results shows
    previous          \* what check_token_security returned to the earlier checks

vars == <<request, config, registry, chain, pcMain, pcInfo, pcSec, token_info,
          owner_address, strategy_log, security_result, result, risk_shown, previous>>

\* what no action of a check changes: its inputs, the bot's message, and
\* what the earlier checks returned
inputs == <<request, config, registry, chain, risk_shown, previous>>

NoResult == [status |-> "none"]
NoDict == [unset |-> TRUE]

\* ------------------------------------------------------------------------
\* CheckerManager.check_token and EthTokenChecker.check_token
\* ------------------------------------------------------------------------

\* str.lower() on the blockchain names the model uses
Lower(s) ==
    CASE s = "ETH" -> "eth"
      [] s = "Eth" -> "eth"
      [] s = "BSC" -> "bsc"
      [] OTHER -> s

\* self.checkers
checkers == {"eth"}

\* CheckerManager.check_token up to the call of the checker, and
\* EthTokenChecker.check_token up to its first await: both tasks are created
ManagerCheckToken ==
    /\ pcMain = "manager"
    /\ IF Lower(request.blockchain) \notin checkers
       THEN /\ result' = [status |-> "error", error |-> "Unsupported blockchain",
                          valid |-> FALSE]
            /\ pcMain' = "done"
            /\ UNCHANGED <<pcInfo, pcSec>>
       ELSE /\ pcMain' = "await"
            /\ pcInfo' = "start"
            /\ pcSec' = "start"
            /\ UNCHANGED result
    /\ UNCHANGED <<inputs, token_info, owner_address, strategy_log, security_result>>

CombineNoErrorCheck(ti, sr) ==
    [status |-> "success", valid |-> TRUE, blockchain |-> "eth",
     token |-> ti, security |-> sr,
     risk_level |-> DetermineRiskLevel(sr), issues |-> FormatIssues(sr)]

\* EthTokenChecker.check_token after both awaits
Combine(ti, sr) ==
    IF IsError(ti)
    THEN [status |-> "error", error |-> ti.error, valid |-> FALSE]
    ELSE [status |-> "success", valid |-> TRUE, blockchain |-> "eth",
          token |-> ti, security |-> sr,
          risk_level |-> DetermineRiskLevel(sr), issues |-> FormatIssues(sr)]

CheckerCombine ==
    /\ pcMain = "await"
    /\ pcInfo = "done"
    /\ pcSec = "done"
    /\ result' = Combine(token_info, security_result)
    /\ pcMain' = "done"
    /\ UNCHANGED <<inputs, pcInfo, pcSec, token_info, owner_address, strategy_log,
                   security_result>>

\* TelegramBot._format_security_results: the tier of the message
FormatSecurityResults(token_check_result) ==
    IF Get(token_check_result, "status", "None") # "success" THEN "check_failed"
    ELSE BotRiskLevel(Get(token_check_result, "security", NoDict))

\* TelegramBot.handle_message after the check: an error result is reported
\* as a failed analysis, any other result is formatted
BotFormat ==
    /\ pcMain = "done"
    /\ risk_shown' = IF Get(result, "status", "None") = "error" THEN "analysis_failed"
                     ELSE FormatSecurityResults(result)
    /\ pcMain' = "shown"
    /\ UNCHANGED <<request, config, registry, chain, pcInfo, pcSec, token_info,
                   owner_address, strategy_log, security_result, result, previous>>

\* TelegramBot.handle_message for the next message with the same address:
\* the same clients serve it; the values of the last check are still in
\* place until the new check assigns them
CheckAgain ==
    /\ pcMain = "shown"
    /\ Len(previous) + 1 < request.times
    /\ previous' = Append(previous, security_result)
    /\ pcMain' = "manager"
    /\ pcInfo' = "idle"
    /\ pcSec' = "idle"
    /\ strategy_log' = <<>>
    /\ UNCHANGED <<request, config, registry, chain, risk_shown, token_info,
                   owner_address, security_result, result>>

\* ------------------------------------------------------------------------
\* Scheduling.  The two tasks run on one event loop.  get_token_information
\* was created first and runs until it waits for an aiohttp request;
\* check_token_security awaits nothing that suspends, so once it starts it
\* runs to its end.
\* ------------------------------------------------------------------------

Suspended == {"strategy3_io"}

InfoMayRun ==
    /\ pcInfo \notin {"idle", "done"}
    /\ pcSec = "done" \/ (pcSec = "start" /\ pcInfo \notin Suspended)

SecMayRun ==
    /\ pcSec \notin {"idle", "done"}
    /\ pcInfo \in Suspended \cup {"done"}

\* ------------------------------------------------------------------------
\* The get_token_information task
\* ------------------------------------------------------------------------

NA == Str("N/A", FALSE, 3, FALSE)

\* owner_address[:6] + "..." + owner_address[-4:]
Shorten(v) == Str(v.id, v.p0x, Min(StrLen(v), 6) + 3 + Min(StrLen(v), 4) - 2, FALSE)

\* "https://etherscan.io/address/" + owner_address
Link(v) == [base |-> "https://etherscan.io/address/", address |-> v]

Log(name, value) == [strategy |-> name, returned |-> value]

\* the guards of get_token_information, the token_info dict, _get_token_metadata
InfoStart ==
    /\ InfoMayRun
    /\ pcInfo = "start"
    /\ IF ~config.web3
       THEN /\ token_info' = ErrorResult("Web3 connection not available")
            /\ pcInfo' = "done"
       ELSE IF ~IsAddress(request.token_address)
       THEN /\ token_info' = ErrorResult("Invalid Ethereum address format")
            /\ pcInfo' = "done"
       ELSE /\ token_info' =
                 [address |-> request.token_address,
                  name |-> IF chain.metadata_ok THEN "name" ELSE "None",
                  symbol |-> IF chain.metadata_ok THEN "symbol" ELSE "None",
                  is_contract |-> "None", verified |-> "None",
                  owner |-> NoneV, owner_full |-> NoneV, owner_link |-> NoneV,
                  owner_html |-> NoneV]
            /\ pcInfo' = "strategy1"
    /\ UNCHANGED <<inputs, pcMain, pcSec, owner_address, strategy_log,
                   security_result, result>>

\* Strategy 1: the getter sweep on the binding built with self.erc20_abi
InfoStrategy1 ==
    /\ InfoMayRun
    /\ pcInfo = "strategy1"
    /\ LET r == CheckOwnerMethods(erc20_abi, chain.getter)
       IN  /\ owner_address' = r
           /\ strategy_log' = Append(strategy_log, Log("owner_methods", r))
    /\ pcInfo' = "strategy2"
    /\ UNCHANGED <<inputs, pcMain, pcSec, token_info, security_result, result>>

StopsChainNever(owner) == FALSE

\* "if not owner_address": the chain goes on while this is false
StopsChain(owner) == Truthy(owner)

\* Strategy 2: the verified source
InfoStrategy2 ==
    /\ InfoMayRun
    /\ pcInfo = "strategy2"
    /\ IF ~StopsChain(owner_address) /\ config.etherscan
       THEN LET r == CheckSourceCodeForOwner(registry, chain.getter)
            IN  /\ owner_address' = r
                /\ strategy_log' = Append(strategy_log, Log("source_code", r))
       ELSE UNCHANGED <<owner_address, strategy_log>>
    /\ pcInfo' = "strategy3"
    /\ UNCHANGED <<inputs, pcMain, pcSec, token_info, security_result, result>>

\* Strategy 3 up to its first aiohttp request
InfoStrategy3Begin ==
    /\ InfoMayRun
    /\ pcInfo = "strategy3"
    /\ IF ~StopsChain(owner_address) /\ config.etherscan
       THEN pcInfo' = "strategy3_io"
       ELSE pcInfo' = "strategy4"
    /\ UNCHANGED <<inputs, pcMain, pcSec, token_info, owner_address, strategy_log,
                   security_result, result>>

\* Strategy 3: proxy resolution
InfoStrategy3End ==
    /\ InfoMayRun
    /\ pcInfo = "strategy3_io"
    /\ LET r == CheckProxyImplementation(registry, chain.slot, chain.getter)
       IN  /\ owner_address' = r
           /\ strategy_log' = Append(strategy_log, Log("proxy", r))
    /\ pcInfo' = "strategy4"
    /\ UNCHANGED <<inputs, pcMain, pcSec, token_info, security_result, result>>

InfoStrategy4FailureEndsChain ==
    /\ InfoMayRun
    /\ pcInfo = "strategy4"
    /\ IF ~StopsChain(owner_address) /\ config.etherscan
       THEN LET r == CheckOwnershipEvents(registry)
            IN  /\ owner_address' = r
                /\ strategy_log' = Append(strategy_log, Log("events", r))
                /\ pcInfo' = IF Usable(registry.api["events"]) THEN "strategy5"
                             ELSE "save_owner"
       ELSE /\ UNCHANGED <<owner_address, strategy_log>>
            /\ pcInfo' = "strategy5"
    /\ UNCHANGED <<inputs, pcMain, pcSec, token_info, security_result, result>>

\* Strategy 4: OwnershipTransferred events
InfoStrategy4 ==
    /\ InfoMayRun
    /\ pcInfo = "strategy4"
    /\ IF ~StopsChain(owner_address) /\ config.etherscan
       THEN LET r == CheckOwnershipEvents(registry)
            IN  /\ owner_address' = r
                /\ strategy_log' = Append(strategy_log, Log("events", r))
       ELSE UNCHANGED <<owner_address, strategy_log>>
    /\ pcInfo' = "strategy5"
    /\ UNCHANGED <<inputs, pcMain, pcSec, token_info, security_result, result>>

\* Strategy 5: the contract creator
InfoStrategy5 ==
    /\ InfoMayRun
    /\ pcInfo = "strategy5"
    /\ IF ~StopsChain(owner_address) /\ config.etherscan
       THEN LET r == CheckContractCreator(registry)
            IN  /\ owner_address' = r
                /\ strategy_log' = Append(strategy_log, Log("creator", r))
       ELSE UNCHANGED <<owner_address, strategy_log>>
    /\ pcInfo' = "save_owner"
    /\ UNCHANGED <<inputs, pcMain, pcSec, token_info, security_result, result>>

\* "Save owner info to token_info"
SaveOwner(ti, owner) ==
    IF Truthy(owner) /\ IsAddress(owner)
    THEN [ti EXCEPT !.owner_full = owner, !.owner_link = Link(owner),
                    !.owner = Shorten(owner)]
    ELSE [ti EXCEPT !.owner = NA, !.owner_full = NoneV, !.owner_link = NoneV,
                    !.owner_html = NA]

InfoSaveOwner ==
    /\ InfoMayRun
    /\ pcInfo = "save_owner"
    /\ token_info' = SaveOwner(token_info, owner_address)
    /\ pcInfo' = "finish"
    /\ UNCHANGED <<inputs, pcMain, pcSec, owner_address, strategy_log,
                   security_result, result>>

\* _get_verification_status
VerificationStatus(cfg, reg, ti) ==
    IF cfg.etherscan /\ ~reg.lib_raises
    THEN [ti EXCEPT !.verified =
             IF Len(reg.source_info) > 0 /\ ~reg.source_info[1].SourceCode.empty
             THEN "True" ELSE "False"]
    ELSE ti

\* get_code (a HexBytes value, which never equals the str "0x"), then
\* _get_verification_status, then return; a failing get_code is caught by
\* the outer except and turns the whole token_info into an error value
InfoFinish ==
    /\ InfoMayRun
    /\ pcInfo = "finish"
    /\ IF chain.code = "raise"
       THEN token_info' = ErrorResult("get_code failed")
       ELSE token_info' = VerificationStatus(config, registry,
                              [token_info EXCEPT !.is_contract = "True"])
    /\ pcInfo' = "done"
    /\ UNCHANGED <<inputs, pcMain, pcSec, owner_address, strategy_log,
                   security_result, result>>

\* ------------------------------------------------------------------------
\* The check_token_security task
\* ------------------------------------------------------------------------

NewSecurityResultReused(liquidity) ==
    IF "issues" \in DOMAIN security_result
    THEN [security_result EXCEPT !.liquidity_status = liquidity]
    ELSE [is_honeypot |-> FALSE, is_verified |-> FALSE, has_self_destruct |-> FALSE,
          has_blacklist |-> FALSE, has_mint |-> FALSE, has_pause |-> FALSE,
          has_revoke |-> FALSE, can_renounce_ownership |-> FALSE,
          liquidity_status |-> liquidity, security_score |-> 0, issues |-> <<>>]

NewSecurityResult(liquidity) ==
    [is_honeypot |-> FALSE, is_verified |-> FALSE, has_self_destruct |-> FALSE,
     has_blacklist |-> FALSE, has_mint |-> FALSE, has_pause |-> FALSE,
     has_revoke |-> FALSE, can_renounce_ownership |-> FALSE,
     liquidity_status |-> liquidity, security_score |-> 0, issues |-> <<>>]

\* the guards of check_token_security and the security_result dict, whose
\* liquidity_status is the awaited check_liquidity_pools
SecStart ==
    /\ SecMayRun
    /\ pcSec = "start"
    /\ IF ~config.etherscan
       THEN /\ security_result' = ErrorResult("Etherscan API not configured")
            /\ pcSec' = "done"
       ELSE IF ~IsAddress(request.token_address)
       THEN /\ security_result' = ErrorResult("Invalid Ethereum address format")
            /\ pcSec' = "done"
       ELSE /\ security_result' = NewSecurityResult(
                   CheckLiquidityPools(config.web3, chain.factory,
                                       chain.locker_tok, chain.locker_lp))
            /\ pcSec' = "source"
    /\ UNCHANGED <<inputs, pcMain, pcInfo, token_info, owner_address, strategy_log,
                   result>>

\* len(source_code) > 0 and source_code[0].get("SourceCode", "") != ""
IsVerified(reg) == Len(reg.source_info) > 0 /\ ~reg.source_info[1].SourceCode.empty

UnverifiedBranchSilent(sr) == sr

\* the else branch of the verification test
UnverifiedBranch(sr) ==
    [sr EXCEPT !.issues = Append(@, "Contract source code not verified")]

SecSourceReadsTokenInfo ==
    /\ SecMayRun
    /\ pcSec = "source"
    /\ IF registry.lib_raises
       THEN /\ security_result' = ErrorResult("get_contract_source_code failed")
            /\ pcSec' = "done"
       ELSE IF Get(token_info, "verified", "None") = "True"
       THEN /\ security_result' = [security_result EXCEPT !.is_verified = TRUE]
            /\ pcSec' = "selfdestruct"
       ELSE /\ security_result' = UnverifiedBranch(security_result)
            /\ pcSec' = "score"
    /\ UNCHANGED <<inputs, pcMain, pcInfo, token_info, owner_address, strategy_log,
                   result>>

\* get_contract_source_code and the verification test
SecSource ==
    /\ SecMayRun
    /\ pcSec = "source"
    /\ IF registry.lib_raises
       THEN /\ security_result' = ErrorResult("get_contract_source_code failed")
            /\ pcSec' = "done"
       ELSE IF IsVerified(registry)
       THEN /\ security_result' = [security_result EXCEPT !.is_verified = TRUE]
            /\ pcSec' = "selfdestruct"
       ELSE /\ security_result' = UnverifiedBranch(security_result)
            /\ pcSec' = "score"
    /\ UNCHANGED <<inputs, pcMain, pcInfo, token_info, owner_address, strategy_log,
                   result>>

contract_source == registry.source_info[1].SourceCode

\* one detector of _run_security_checks
Detector(at, checked, next) ==
    /\ SecMayRun
    /\ pcSec = at
    /\ security_result' = checked
    /\ pcSec' = next
    /\ UNCHANGED <<inputs, pcMain, pcInfo, token_info, owner_address, strategy_log,
                   result>>

SecSelfdestruct ==
    Detector("selfdestruct", CheckSelfdestruct(contract_source, security_result), "blacklist")
SecBlacklist ==
    Detector("blacklist", CheckBlacklist(contract_source, security_result), "pause")
SecPause ==
    Detector("pause", CheckPauseFunction(contract_source, security_result), "revoke")
SecRevoke ==
    Detector("revoke", CheckRevokeFunctions(contract_source, security_result), "renounce")
SecRenounce ==
    Detector("renounce", CheckOwnershipRenouncing(contract_source, security_result), "mint")
SecMint ==
    Detector("mint", CheckMintCapability(contract_source, security_result), "honeypot")
SecHoneypot ==
    Detector("honeypot", CheckHoneypotIndicators(contract_source, security_result), "score")

\* security_result["security_score"] = self._calculate_security_score(...)
SecScore ==
    /\ SecMayRun
    /\ pcSec = "score"
    /\ security_result' =
          [security_result EXCEPT !.security_score = CalculateSecurityScore(security_result)]
    /\ pcSec' = "done"
    /\ UNCHANGED <<inputs, pcMain, pcInfo, token_info, owner_address, strategy_log,
                   result>>

\* ------------------------------------------------------------------------
\* Specifications
\* ------------------------------------------------------------------------

Next ==
    \/ ManagerCheckToken
    \/ CheckerCombine
    \/ BotFormat
    \/ CheckAgain
    \/ InfoStart
    \/ InfoStrategy1
    \/ InfoStrategy2
    \/ InfoStrategy3Begin
    \/ InfoStrategy3End
    \/ InfoStrategy4
    \/ InfoStrategy5
    \/ InfoSaveOwner
    \/ InfoFinish
    \/ SecStart
    \/ SecSource
    \/ SecSelfdestruct
    \/ SecBlacklist
    \/ SecPause
    \/ SecRevoke
    \/ SecRenounce
    \/ SecMint
    \/ SecHoneypot
    \/ SecScore

\* the state before a check starts
Idle ==
    /\ pcMain = "manager"
    /\ pcInfo = "idle"
    /\ pcSec = "idle"
    /\ token_info = NoDict
    /\ security_result = NoDict
    /\ owner_address = NoneV
    /\ strategy_log = <<>>
    /\ result = NoResult
    /\ risk_shown = "None"
    /\ previous = <<>>

Patterns ==
    [selfdestruct : BOOLEAN, blacklist : BOOLEAN, pause : BOOLEAN, revoke : BOOLEAN,
     renounce : BOOLEAN, mint : BOOLEAN, honeypot : BOOLEAN]

NoPatterns ==
    [selfdestruct |-> FALSE, blacklist |-> FALSE, pause |-> FALSE, revoke |-> FALSE,
     renounce |-> FALSE, mint |-> FALSE, honeypot |-> FALSE]

NoStateVars == [v \in {"owner", "admin", "governance", "_owner"} |-> NoneV]

\* an unverified contract: SourceCode is the empty string
EmptySource ==
    [empty |-> TRUE, ownable |-> FALSE, ctor_transfer |-> NoneV,
     state_vars |-> NoStateVars, patterns |-> NoPatterns, text |-> <<>>,
     functions |-> <<>>, bases |-> <<>>, sell_matches |-> <<>>]

\* one function of a source
Fn(name, header, body) == [name |-> name, header |-> header, body |-> body]

\* a verified source in which no detector finds anything
PlainSource == [EmptySource EXCEPT !.empty = FALSE, !.text = <<"code">>]

\* the text of a source with the findings p
TextOf(p) ==
    (IF p.selfdestruct THEN <<"selfdestruct(">> ELSE <<>>)
    \o (IF p.renounce THEN <<"function renounceOwnership">> ELSE <<>>)
    \o <<"code">>

UnverifiedInfo ==
    [SourceCode |-> EmptySource, ABI |-> NotVerifiedAbi, Implementation |-> NoneV]

Outcomes == {Fails} \cup {Returns(v) : v \in 0..MaxAmount}

AllZero(names) == [l \in names |-> Returns(0)]

Range(seq) == {seq[i] : i \in 1..Len(seq)}

QuietApi == [k \in {"proxy", "impl", "events", "creator"} |-> "http_error"]

\* the functions of a source with the findings p
FunctionsOf(p) ==
    IF p.mint THEN <<Fn("mint", "public", "_mint(a);")>> ELSE <<>>

VerifiedInfo(p, abi) ==
    [SourceCode |-> [PlainSource EXCEPT !.patterns = p, !.text = TextOf(p),
                                       !.functions = FunctionsOf(p)],
     ABI |-> abi, Implementation |-> NoneV]

\* a registry that answers the etherscan library and no aiohttp request
Registry(raises, infos) ==
    [lib_raises |-> raises, source_info |-> infos, api |-> QuietApi,
     impl_abi |-> NotVerifiedAbi, logs |-> <<>>, creator |-> NoneV]

\* a chain on which no getter answers and no implementation slot is set
Chain(code, fac, tok, lp) ==
    [getter |-> [m \in {"owner"} |-> Revert], slot |-> "zero",
     code |-> code, metadata_ok |-> TRUE, factory |-> fac,
     locker_tok |-> tok, locker_lp |-> lp]

Factories == [Range(DexNames) -> {"raise", "zero", "pair"}]

\* the lockers' answers: unicrypt's for the token and team_finance's for the
\* Uniswap V2 pair vary, every other call returns 0
LockerTok(tok) == [AllZero(Range(LockerNames)) EXCEPT !["unicrypt"] = tok]
LockerLp(lp) ==
    [l \in Range(LockerNames) |->
       [d \in Range(DexNames) |->
          IF l = "team_finance" /\ d = "Uniswap V2" THEN lp ELSE Returns(0)]]

\* every request and configuration, against a few registry and chain states
InitRequests ==
    /\ request \in [token_address : {TokenAddr, BadAddr},
                    blockchain : {"eth", "ETH", "bsc"}, times : {1}]
    /\ config \in [web3 : BOOLEAN, etherscan : BOOLEAN]
    /\ \E raises \in BOOLEAN :
       \E infos \in {<<>>, <<UnverifiedInfo>>,
                     <<VerifiedInfo([NoPatterns EXCEPT !.mint = TRUE], VerifiedAbi({}))>>} :
          registry = Registry(raises, infos)
    /\ \E fac \in {[d \in Range(DexNames) |-> "zero"], [d \in Range(DexNames) |-> "pair"]} :
       \E code \in {"raise", "code"} :
          chain = Chain(code, fac, LockerTok(Returns(0)), LockerLp(Returns(MaxAmount)))

\* a well-formed request on a configured client, against every combination
\* of findings, of registry answers and of liquidity calls
InitChecks ==
    /\ request = [token_address |-> TokenAddr, blockchain |-> "eth", times |-> 1]
    /\ config = [web3 |-> TRUE, etherscan |-> TRUE]
    /\ \/ registry = Registry(TRUE, <<UnverifiedInfo>>)
       \/ \E infos \in {<<>>, <<UnverifiedInfo>>}
                       \cup {<<VerifiedInfo(p, VerifiedAbi({}))>> : p \in Patterns} :
             registry = Registry(FALSE, infos)
    /\ \E fac \in Factories, tok \in Outcomes, lp \in Outcomes :
          chain = Chain("code", fac, LockerTok(tok), LockerLp(lp))

\* the same well-formed request sent up to MaxChecks times, against every
\* combination of findings and of pair lookups
InitRepeat ==
    /\ \E n \in 2..MaxChecks :
          request = [token_address |-> TokenAddr, blockchain |-> "eth", times |-> n]
    /\ config = [web3 |-> TRUE, etherscan |-> TRUE]
    /\ \E infos \in {<<>>, <<UnverifiedInfo>>}
                    \cup {<<VerifiedInfo(p, VerifiedAbi({}))>> : p \in Patterns} :
          registry = Registry(FALSE, infos)
    /\ \E fac \in Factories :
          chain = Chain("code", fac, LockerTok(Returns(MaxAmount)), LockerLp(Returns(0)))

Init == Idle /\ (InitRequests \/ InitChecks \/ InitRepeat)

Spec == Init /\ [][Next]_vars

\* the topics of one OwnershipTransferred log whose new owner is addr
Topic0 == Str("0x8be0079c", TRUE, 64, TRUE)
TransferLog(addr) == <<Topic0, Topic(ZeroAddr), Topic(addr)>>

\* the source texts the source-text strategy is tried on
OwnerSources ==
    {[PlainSource EXCEPT !.ownable = TRUE, !.ctor_transfer = c,
                         !.state_vars = [NoStateVars EXCEPT !["owner"] = v]] :
        c \in {NoneV, AddrC, ShortLit, ExprLit}, v \in {NoneV, AddrC, ShortLit}}
    \cup {[PlainSource EXCEPT !.ctor_transfer = AddrC]}

\* the source texts that declare the owner as a literal address
LiteralSources ==
    {[PlainSource EXCEPT !.ownable = TRUE, !.ctor_transfer = AddrC],
     [PlainSource EXCEPT !.state_vars = [NoStateVars EXCEPT !["owner"] = AddrC]]}

\* the registry's answers about the token's own source
OwnerInfos ==
    {<<>>, <<UnverifiedInfo>>}
    \cup {<<[SourceCode |-> PlainSource,
             ABI |-> VerifiedAbi(ms), Implementation |-> impl]>> :
            ms \in SUBSET {"owner", "admin"}, impl \in {NoneV, ImplAddr}}
    \cup {<<[SourceCode |-> src, ABI |-> MalformedAbi, Implementation |-> NoneV]>> :
            src \in OwnerSources}
    \cup {<<[SourceCode |-> src, ABI |-> VerifiedAbi(ms), Implementation |-> NoneV]>> :
            src \in LiteralSources, ms \in {{}, {"owner"}}}

\* the checks of the owner side: every combination of getter answers, of
\* registry answers and of proxy, event and creator data
InitOwner ==
    /\ Idle
    /\ \/ /\ request = [token_address |-> TokenAddr, blockchain |-> "eth", times |-> 1]
          /\ config = [web3 |-> TRUE, etherscan |-> TRUE]
          /\ \E raises \in BOOLEAN, infos \in OwnerInfos :
             \E pr \in {<<s, a, "ok", "ok">> : s \in {"raise", "zero", "impl"},
                                               a \in {NotVerifiedAbi, VerifiedAbi({"owner"})}}
                       \cup {<<"impl", VerifiedAbi({"owner"}), "http_error", "ok">>,
                             <<"impl", MalformedAbi, "ok", "ok">>,
                             <<"zero", VerifiedAbi({"owner"}), "ok", "bad_json">>} :
             \E ev \in {<<"status0", <<>> >>, <<"ok", <<>> >>,
                        <<"ok", <<TransferLog(AddrC), TransferLog(AddrD)>> >>,
                        <<"ok", <<TransferLog(AddrC), TransferLog(ZeroAddr)>> >>,
                        <<"ok", <<TransferLog(AddrD), <<Topic0, Topic(AddrC)>> >> >>} :
             \E cr \in {<<"bad_json", NoneV>>, <<"ok", AddrD>>, <<"ok", BadAddr>>} :
                /\ raises => infos = <<UnverifiedInfo>>
                /\ registry = [lib_raises |-> raises, source_info |-> infos,
                               api |-> [proxy |-> pr[4], impl |-> pr[3],
                                        events |-> ev[1], creator |-> cr[1]],
                               impl_abi |-> pr[2], logs |-> ev[2], creator |-> cr[2]]
                /\ \E own \in {Revert, AddrA, ZeroAddr}, adm \in {Revert, AddrB} :
                      chain = [Chain("code", [d \in Range(DexNames) |-> "zero"],
                                     LockerTok(Returns(0)), LockerLp(Returns(MaxAmount)))
                               EXCEPT !.getter = [owner |-> own, admin |-> adm],
                                      !.slot = pr[1]]
       \/ /\ \E n \in 1..MaxChecks :
                request = [token_address |-> TokenAddr, blockchain |-> "eth",
                           times |-> n]
          /\ config = [web3 |-> TRUE, etherscan |-> FALSE]
          /\ registry = Registry(FALSE, <<UnverifiedInfo>>)
          /\ \E own \in {Revert, AddrA} :
                chain = [Chain("code", [d \in Range(DexNames) |-> "zero"],
                               LockerTok(Returns(0)), LockerLp(Returns(MaxAmount)))
                         EXCEPT !.getter = [owner |-> own, admin |-> Revert]]

SpecOwner == InitOwner /\ [][Next]_vars

\* the answers of the lockers for the pairs: unicrypt's vary per pair, the
\* other lockers answer the same for every pair; a call that is never made
\* (no pair on that DEX) is left at 0
LpAnswers(fac) ==
    {[l \in Range(LockerNames) |->
        [d \in Range(DexNames) |->
           IF fac[d] # "pair" THEN Returns(0)
           ELSE IF l = "unicrypt" THEN u[d] ELSE o[l]]] :
       u \in [Range(DexNames) -> Outcomes],
       o \in [{"team_finance", "pink_lock"} -> Outcomes]}

\* the checks of the liquidity side: a verified token without findings,
\* against every outcome of the pair lookups and of the lockers' calls
InitLiquidity ==
    /\ Idle
    /\ config = [web3 |-> TRUE, etherscan |-> TRUE]
    /\ registry = Registry(FALSE, <<VerifiedInfo(NoPatterns, VerifiedAbi({}))>>)
    /\ \E fac \in Factories :
          IF \E d \in Range(DexNames) : fac[d] = "raise"
          THEN chain = Chain("code", fac, LockerTok(Returns(0)), LockerLp(Returns(0)))
          ELSE \E tok \in [Range(LockerNames) -> Outcomes], lp \in LpAnswers(fac) :
                  chain = Chain("code", fac, tok, lp)
    /\ \E n \in 1..MaxChecks :
          /\ request = [token_address |-> TokenAddr, blockchain |-> "eth", times |-> n]
          /\ n > 1 => chain.factory["Uniswap V2"] = "raise"

SpecLiquidity == InitLiquidity /\ [][Next]_vars

\* the fragments the source texts are made of
FragmentNames ==
    {"//", "/*", "*/", "newline", "code", "long", "selfdestruct(",
     "function renounceOwnership"}

\* the non-empty texts of at most MaxFragments fragments
Texts == UNION {[1..n -> FragmentNames] : n \in 1..MaxFragments}

\* the checks of the source text: a verified token whose source is any text
InitText ==
    /\ Idle
    /\ config = [web3 |-> TRUE, etherscan |-> TRUE]
    /\ \E t \in Texts :
          registry = Registry(FALSE, <<[SourceCode |-> [PlainSource EXCEPT !.text = t],
                                        ABI |-> VerifiedAbi({}),
                                        Implementation |-> NoneV]>>)
    /\ chain = Chain("code", [d \in Range(DexNames) |-> "zero"],
                     LockerTok(Returns(0)), LockerLp(Returns(0)))
    /\ \E n \in 1..MaxChecks :
          /\ request = [token_address |-> TokenAddr, blockchain |-> "eth", times |-> n]
          /\ n > 1 => Len(registry.source_info[1].SourceCode.text) = 1

SpecText == InitText /\ [][Next]_vars

\* the functions the sources are made of
FunctionKinds ==
    {Fn("burn", "public", "_burn(a);"),
     Fn("burn", "public", "totalSupply -= a;"),
     Fn("_burn", "internal", "totalSupply -= a;"),
     Fn("transfer", "public", "balances[to] += a;"),
     Fn("mint", "public", "_mint(a);"),
     Fn("_mint", "internal", "totalSupply += a;"),
     Fn("_mint", "internal", "/* internal */ totalSupply += a;"),
     Fn("_mint", "internal", "balances[to] += a;"),
     Fn("transfer", "public", "totalSupply += a;"),
     Fn("transfer", "public", "_mint(a); _burn(a); _burn(a);"),
     Fn("transfer", "public", "_mint(a); _mint(a); _burn(a);"),
     Fn("burn", "public", "_mint(a);"),
     Fn("constructor", "public", "_mint(a);")}

\* the checks of the mint detector: a verified token with at most
\* MaxFunctions functions and one base contract
InitMint ==
    /\ Idle
    /\ config = [web3 |-> TRUE, etherscan |-> TRUE]
    /\ \E n \in 0..MaxFunctions :
       \E fs \in [1..n -> FunctionKinds] :
       \E base \in {"ERC20", "ERC20Burnable", "ERC20Mintable"} :
          registry = Registry(FALSE,
                        <<[SourceCode |-> [PlainSource EXCEPT !.functions = fs,
                                                              !.bases = <<base>>],
                           ABI |-> VerifiedAbi({}),
                           Implementation |-> NoneV]>>)
    /\ chain = Chain("code", [d \in Range(DexNames) |-> "zero"],
                     LockerTok(Returns(0)), LockerLp(Returns(0)))
    /\ \E n \in 1..MaxChecks :
          /\ request = [token_address |-> TokenAddr, blockchain |-> "eth", times |-> n]
          /\ n > 1 => registry.source_info[1].SourceCode.functions = <<>>

SpecMint == InitMint /\ [][Next]_vars

\* the digit strings the sell-tax patterns capture
TaxDigits ==
    {<<"0">>, <<"5">>, <<"2", "5">>, <<"0", "2", "5">>, <<"2", "6">>, <<"9", "0">>,
     <<"1", "0", "0">>}

\* the checks of the honeypot detector: a verified token whose source holds
\* or does not hold a fixed honeypot phrase, and at most MaxMatches matches
\* of the sell-tax patterns
InitHoneypot ==
    /\ Idle
    /\ config = [web3 |-> TRUE, etherscan |-> TRUE]
    /\ \E n \in 0..MaxMatches :
       \E ms \in [1..n -> TaxDigits] :
       \E phrase \in BOOLEAN :
          registry = Registry(FALSE,
                        <<[SourceCode |-> [PlainSource EXCEPT !.patterns.honeypot = phrase,
                                                              !.sell_matches = ms],
                           ABI |-> VerifiedAbi({}),
                           Implementation |-> NoneV]>>)
    /\ \E fac \in {[d \in Range(DexNames) |-> "zero"], [d \in Range(DexNames) |-> "pair"]} :
          chain = Chain("code", fac, LockerTok(Returns(0)), LockerLp(Returns(0)))
    /\ \E n \in 1..MaxChecks :
          /\ request = [token_address |-> TokenAddr, blockchain |-> "eth", times |-> n]
          /\ n > 1 => registry.source_info[1].SourceCode.sell_matches = <<>>

SpecHoneypot == InitHoneypot /\ [][Next]_vars

\* ------------------------------------------------------------------------
\* Properties
\* ------------------------------------------------------------------------

\* the security task has returned a report (not an error value)
ReportDone == pcSec = "done" /\ ~IsError(security_result)

\* C1: for every combination of findings and every liquidity status, an
\* error value included, the security_score of a report is an integer
\* between 0 and 100.
C1_ScoreInRange ==
    ReportDone => security_result.security_score \in 0..100

\* a report whose deductions exceed 100 and whose liquidity status is an
\* error value
C1_Witness ==
    /\ ReportDone
    /\ IsError(security_result.liquidity_status)
    /\ security_result.is_honeypot
    /\ security_result.has_self_destruct
    /\ security_result.security_score = 0

\* C2: security_score = clamp(100 - 50[not verified] - 100[honeypot]
\* - 30[self-destruct] - 15[blacklist] - 20[mint] - 15[pause] - 25[revoke] + L)
\* with L = +10 for locked liquidity, -15 for unlocked liquidity, -10 for no
\* liquidity; verified, no finding and locked liquidity give exactly 100.
C2_ScoreFormula ==
    ReportDone =>
      LET sr == security_result
          ls == sr.liquidity_status
          has_liquidity == ~IsError(ls) /\ ls.has_liquidity
          L  == IF has_liquidity /\ ls.is_locked THEN 10
                ELSE IF has_liquidity THEN 0 - 15
                ELSE 0 - 10
          raw == 100 - 50 * B2N(~sr.is_verified) - 100 * B2N(sr.is_honeypot)
                     - 30 * B2N(sr.has_self_destruct) - 15 * B2N(sr.has_blacklist)
                     - 20 * B2N(sr.has_mint) - 15 * B2N(sr.has_pause)
                     - 25 * B2N(sr.has_revoke) + L
          dangerous == sr.is_honeypot \/ sr.has_self_destruct \/ sr.has_blacklist
                       \/ sr.has_mint \/ sr.has_pause \/ sr.has_revoke
      IN  /\ sr.security_score = (IF raw < 0 THEN 0 ELSE IF raw > 100 THEN 100 ELSE raw)
          /\ (sr.is_verified /\ ~dangerous /\ has_liquidity /\ ls.is_locked)
                => sr.security_score = 100

\* verified, no dangerous finding, liquidity present and locked: score 100
C2_Witness ==
    /\ ReportDone
    /\ security_result.is_verified
    /\ security_result.issues = <<>>
    /\ Get(security_result.liquidity_status, "has_liquidity", FALSE)
    /\ Get(security_result.liquidity_status, "is_locked", FALSE)
    /\ security_result.security_score = 100

DetectorPositions ==
    {"selfdestruct", "blacklist", "pause", "revoke", "renounce", "mint", "honeypot"}

\* the positions of the security task from the first detector on
DetectorOrder ==
    <<"selfdestruct", "blacklist", "pause", "revoke", "renounce", "mint", "honeypot",
      "score", "done">>

\* C3: when the registry reports no verified source, no detector runs, all
\* seven findings are false, issues holds the not-verified entry, and the
\* score before the liquidity adjustment is at most 50.
C3_Unverified ==
    (~registry.lib_raises /\ ~(Len(registry.source_info) > 0
                               /\ ~registry.source_info[1].SourceCode.empty)) =>
      /\ pcSec \notin DetectorPositions
      /\ (pcSec \in {"score", "done"} /\ ~IsError(security_result)) =>
            LET sr == security_result
            IN  /\ ~sr.is_verified
                /\ ~sr.is_honeypot /\ ~sr.has_self_destruct /\ ~sr.has_blacklist
                /\ ~sr.has_mint /\ ~sr.has_pause /\ ~sr.has_revoke
                /\ ~sr.can_renounce_ownership
                /\ \E i \in 1..Len(sr.issues) :
                      sr.issues[i] = "Contract source code not verified"
                /\ FindingsScore(sr) <= 50
                /\ pcSec = "done" =>
                      sr.security_score - LiquidityAdjustment(sr.liquidity_status) <= 50

\* a report for an unverified contract with locked liquidity
C3_Witness ==
    /\ ReportDone
    /\ ~security_result.is_verified
    /\ Get(security_result.liquidity_status, "is_locked", FALSE)
    /\ security_result.security_score = 60

SecurityFields ==
    {"is_honeypot", "has_self_destruct", "has_blacklist", "has_mint", "has_pause",
     "has_revoke", "can_renounce_ownership", "is_verified", "liquidity_status",
     "security_score", "issues"}

\* C4: a result with status success carries a complete security part (all
\* seven findings, is_verified, liquidity_status, security_score, issues),
\* never an error value.
C4_CompleteReport ==
    (pcMain \in {"done", "shown"} /\ result.status = "success") =>
      /\ ~IsError(result.security)
      /\ SecurityFields \subseteq DOMAIN result.security

\* C5: a check with a malformed address or a network without a registered
\* checker ends with an error result (status error, valid false) that
\* holds no token part and no security part.
C5_InputError ==
    (pcMain \in {"done", "shown"}
     /\ (request.token_address = BadAddr \/ request.blockchain = "bsc")) =>
      /\ result.status = "error"
      /\ result.valid = FALSE
      /\ "token" \notin DOMAIN result
      /\ "security" \notin DOMAIN result

\* a malformed address on a supported network and a fully configured client:
\* both tasks ran and the check ended with an error
C5_Witness ==
    /\ pcMain = "done"
    /\ request.token_address = BadAddr
    /\ request.blockchain = "ETH"
    /\ config.web3 /\ config.etherscan
    /\ pcSec = "done" /\ pcInfo = "done"
    /\ result.status = "error"

\* C6: the tier the bot shows is critical if honeypot or not verified or
\* count >= 3, high if otherwise count >= 1, low otherwise, count being the
\* number of true items among not verified, mint, blacklist, pause, revoke,
\* honeypot, self-destruct.
C6_BotTier ==
    (pcMain = "shown" /\ result.status = "success" /\ ~IsError(result.security)) =>
      LET sr == result.security
          count == Cardinality({k \in {"has_mint", "has_blacklist", "has_pause",
                                       "has_revoke", "is_honeypot", "has_self_destruct"} :
                                  sr[k]})
                   + (IF sr.is_verified THEN 0 ELSE 1)
      IN  risk_shown = (IF sr.is_honeypot \/ ~sr.is_verified \/ count >= 3 THEN "critical"
                        ELSE IF count >= 1 THEN "high"
                        ELSE "low")

\* an unverified contract without any finding is shown as critical although
\* its count is 1
C6_Witness ==
    /\ pcMain = "shown"
    /\ result.status = "success"
    /\ ~IsError(result.security)
    /\ ~result.security.is_verified
    /\ risk_shown = "critical"

\* the category-count rule of the risk tier
CategoryTier(sr) ==
    LET count == Cardinality({k \in {"has_mint", "has_blacklist", "has_pause",
                                     "has_revoke", "is_honeypot", "has_self_destruct"} :
                                sr[k]})
                 + (IF sr.is_verified THEN 0 ELSE 1)
    IN  IF sr.is_honeypot \/ ~sr.is_verified \/ count >= 3 THEN "critical"
        ELSE IF count >= 1 THEN "high"
        ELSE "low"

C8_RenounceIsInformational ==
    ReportDone =>
      LET sr == security_result
          other == [sr EXCEPT !.can_renounce_ownership = ~@]
          rescored == [other EXCEPT !.security_score = CalculateSecurityScore(other)]
      IN  /\ rescored.security_score = sr.security_score
          /\ BotRiskLevel(rescored) = BotRiskLevel(sr)
          /\ DetermineRiskLevel(rescored) = DetermineRiskLevel(sr)
          /\ Len(sr.issues) =
               Cardinality({k \in {"has_mint", "has_blacklist", "has_pause", "has_revoke",
                                   "is_honeypot", "has_self_destruct"} : sr[k]})
               + (IF sr.is_verified THEN 0 ELSE 1)

\* a report of a verified contract whose only finding is renounce-ability
C8_Witness ==
    /\ ReportDone
    /\ security_result.can_renounce_ownership
    /\ security_result.is_verified
    /\ security_result.issues = <<>>
    /\ security_result.security_score >= 85

\* a value that passes the final validation of _find_contract_owner
Validated(v) == v # NoneV /\ v # Revert /\ v.hex /\ v.n = 40

StrategyOrder == <<"owner_methods", "source_code", "proxy", "events", "creator">>

\* the owner has been written to token_info
OwnerSaved == pcInfo \in {"finish", "done"} /\ ~IsError(token_info)

\* what a getter call on the token would resolve to: the sweep on the
\* minimal binding, else the sweep on the binding with the verified ABI
DirectGetterOwner ==
    LET minimal == CheckOwnerMethods(erc20_abi, chain.getter)
    IN  IF Validated(minimal) THEN minimal
        ELSE IF config.etherscan /\ ~registry.lib_raises /\ Len(registry.source_info) > 0
                /\ registry.source_info[1].ABI.verified
                /\ registry.source_info[1].ABI.parses
             THEN CheckOwnerMethods(registry.source_info[1].ABI.methods, chain.getter)
             ELSE NoneV

\* C9: the strategies are invoked in the order getter sweep, verified
\* source, proxy resolution, OwnershipTransferred events, contract creator;
\* no strategy is invoked after one that yielded a validated address, that
\* address is the owner returned, and when both a getter call and the proxy
\* lookup would succeed the getter's address is returned.
C9_PriorityOrder ==
    /\ Len(strategy_log) <= Len(StrategyOrder)
    /\ \A i \in 1..Len(strategy_log) :
          /\ strategy_log[i].strategy = StrategyOrder[i]
          /\ Validated(strategy_log[i].returned) => i = Len(strategy_log)
    /\ OwnerSaved =>
          /\ \A i \in 1..Len(strategy_log) :
                Validated(strategy_log[i].returned)
                   => token_info.owner_full = strategy_log[i].returned
          /\ (/\ config.etherscan
              /\ Validated(DirectGetterOwner)
              /\ Validated(CheckProxyImplementation(registry, chain.slot, chain.getter)))
                => token_info.owner_full = DirectGetterOwner

\* the getter admin() of the token's verified ABI answers AddrB, owner() of
\* the implementation's ABI answers AddrA: the getter's address is returned
\* and the proxy strategy was not invoked
C9_Witness ==
    /\ OwnerSaved
    /\ config.etherscan
    /\ Validated(DirectGetterOwner)
    /\ Validated(CheckProxyImplementation(registry, chain.slot, chain.getter))
    /\ DirectGetterOwner # CheckProxyImplementation(registry, chain.slot, chain.getter)
    /\ token_info.owner_full = DirectGetterOwner
    /\ Len(strategy_log) = 2

\* C10: only a validated address ends the chain: after a strategy that
\* yielded a value failing the address validation the following strategies
\* are still run, and the owner is the first validated address a later
\* strategy yields.
C10_OnlyValidatedStops ==
    (pcInfo \in {"save_owner", "finish", "done"} /\ ~IsError(token_info)
     /\ config.etherscan) =>
      /\ \A i \in 1..Len(strategy_log) :
            (~Validated(strategy_log[i].returned) /\ i < Len(StrategyOrder))
               => Len(strategy_log) > i
      /\ (OwnerSaved /\ Validated(CheckContractCreator(registry)))
            => Validated(token_info.owner_full)

\* C11: once the owner is written, token_info holds either a validated
\* non-zero address in owner_full, with its link and its shortened form, or
\* the sentinel N/A with owner_full = None; never an empty string, a partly
\* formed string or the zero address.
C11_OwnerWellFormed ==
    OwnerSaved =>
       \/ /\ Validated(token_info.owner_full)
          /\ token_info.owner_full # ZeroAddr
          /\ token_info.owner_link = Link(token_info.owner_full)
          /\ token_info.owner = Shorten(token_info.owner_full)
       \/ /\ token_info.owner_full = NoneV
          /\ token_info.owner_link = NoneV
          /\ token_info.owner = NA

\* the owner chain has ended
ChainEnded == pcInfo \in {"save_owner", "finish", "done"}

\* something failed inside the strategy: the etherscan library raised, an
\* ABI string did not parse, a bound getter reverted, the storage read
\* raised, or an HTTP request did not answer 200 with JSON of status "1"
StrategyFailed(name) ==
    CASE name = "source_code" ->
            \/ registry.lib_raises
            \/ /\ Len(registry.source_info) > 0
               /\ LET abi == registry.source_info[1].ABI
                  IN  abi.verified /\ (~abi.parses
                         \/ \E m \in abi.methods : CallGetter(chain.getter, m) = Revert)
      [] name = "proxy" ->
            \/ chain.slot = "raise"
            \/ (chain.slot = "impl" /\ ~Usable(registry.api["impl"]))
            \/ (chain.slot = "impl" /\ registry.impl_abi.verified
                                    /\ ~registry.impl_abi.parses)
            \/ ~Usable(registry.api["proxy"])
      [] name = "events" -> ~Usable(registry.api["events"])
      [] name = "creator" -> ~Usable(registry.api["creator"])
      [] OTHER -> FALSE

\* C12: a failure inside one owner strategy leaves only that strategy
\* without a result: a strategy in which something failed and which returned
\* nothing is followed by the next strategy in order, a failed request of
\* the events or creator strategy returns None, and get_token_information
\* returns the token information, not an error value.
C12_FailureIsLocal ==
    (config.etherscan /\ ChainEnded) =>
       /\ \A i \in 1..Len(strategy_log) :
             /\ (strategy_log[i].strategy \in {"events", "creator"}
                 /\ StrategyFailed(strategy_log[i].strategy))
                   => strategy_log[i].returned = NoneV
             /\ (StrategyFailed(strategy_log[i].strategy)
                 /\ strategy_log[i].returned = NoneV /\ i < Len(StrategyOrder))
                   => /\ Len(strategy_log) > i
                      /\ strategy_log[i + 1].strategy = StrategyOrder[i + 1]
       /\ (pcInfo = "done" /\ chain.code # "raise") => ~IsError(token_info)

\* the library raises, the storage read raises, the events request fails,
\* and the creator strategy, run last, still resolves the owner
C12_Witness ==
    /\ pcInfo = "done"
    /\ config.etherscan
    /\ registry.lib_raises
    /\ chain.slot = "raise"
    /\ ~Usable(registry.api["events"])
    /\ Len(strategy_log) = 5
    /\ ~IsError(token_info)
    /\ token_info.owner_full = AddrD

\* what a sweep that calls every candidate getter resolves to: the answer
\* of the first name, in list order, whose call returns a valid address
FirstAnsweringGetter == CheckOwnerMethods(Range(owner_methods), chain.getter)

\* C13: strategy 1 needs no registry data: when the contract answers one
\* of the candidate getter names with a valid address, the sweep on the
\* minimal ERC-20 binding returns the address of the first such name in
\* list order, reverting calls being skipped.
C13_MinimalBindingSweep ==
    Len(strategy_log) >= 1 =>
       /\ strategy_log[1].strategy = "owner_methods"
       /\ strategy_log[1].returned = FirstAnsweringGetter

\* the target is an EIP-1967 proxy: its implementation slot holds a
\* non-zero address, the registry answers for that address with a verified
\* ABI that declares owner(), and owner() called at the target's address
\* returns a valid address
ProxyScenario ==
    /\ config.etherscan
    /\ chain.slot = "impl"
    /\ Usable(registry.api["impl"])
    /\ registry.impl_abi.verified /\ registry.impl_abi.parses
    /\ "owner" \in registry.impl_abi.methods
    /\ Validated(CallGetter(chain.getter, "owner"))

\* C14: in the proxy scenario, when the strategies run on the target itself
\* (getter sweep, verified source) yielded no owner, the owner returned is
\* the answer O of owner(), obtained by the proxy strategy, and neither the
\* event nor the creator strategy is invoked.
C14_ProxyResolution ==
    (/\ ProxyScenario
     /\ OwnerSaved
     /\ Len(strategy_log) >= 2
     /\ strategy_log[1].returned = NoneV
     /\ strategy_log[2].returned = NoneV)
       => /\ Len(strategy_log) = 3
          /\ strategy_log[3] = Log("proxy", CallGetter(chain.getter, "owner"))
          /\ token_info.owner_full = CallGetter(chain.getter, "owner")

\* the proxy strategy answered although events and creator data would have
\* given another address
C14_Witness ==
    /\ ProxyScenario
    /\ pcInfo = "done"
    /\ Len(strategy_log) = 3
    /\ strategy_log[2].returned = NoneV
    /\ strategy_log[3].strategy = "proxy"
    /\ token_info.owner_full = AddrA
    /\ CheckOwnershipEvents(registry) = AddrD
    /\ CheckContractCreator(registry) = AddrD

\* check_liquidity_pools has returned into security_result
LiquidityChecked == pcSec \notin {"idle", "start"} /\ ~IsError(security_result)

\* every call made to the locker answers: the one for the token and the
\* ones for the recorded pools
LockerAnswers(locker, pools) ==
    /\ chain.locker_tok[locker].ok
    /\ \A i \in 1..Len(pools) : chain.locker_lp[locker][pools[i].dex].ok

\* C15: a failing locker call does not keep the other lockers from being
\* queried: whichever lockers fail, the pair lookups having succeeded, the
\* liquidity result is not an error, and every positive amount a
\* non-failing locker answers, for the token or for a recorded pool, is an
\* entry of lock_info and sets is_locked.
C15_LockerFailureIsLocal ==
    (LiquidityChecked /\ config.web3
     /\ \A d \in Range(DexNames) : chain.factory[d] # "raise") =>
       LET ls == security_result.liquidity_status
       IN  /\ ~IsError(ls)
           /\ \A l \in Range(LockerNames) :
                 LockerAnswers(l, ls.pools) =>
                    /\ chain.locker_tok[l].val > 0 =>
                          /\ \E j \in 1..Len(ls.lock_info) :
                                ls.lock_info[j] =
                                   [locker |-> l, amount |-> chain.locker_tok[l].val]
                          /\ ls.is_locked
                    /\ \A i \in 1..Len(ls.pools) :
                          chain.locker_lp[l][ls.pools[i].dex].val > 0 =>
                             /\ \E j \in 1..Len(ls.lock_info) :
                                   ls.lock_info[j] =
                                      [locker |-> l, pool |-> ls.pools[i].dex,
                                       amount |-> chain.locker_lp[l][ls.pools[i].dex].val]
                             /\ ls.is_locked

\* unicrypt's call fails, team_finance answers a locked pair, pink_lock
\* fails: the one lock is reported
C15_Witness ==
    /\ pcSec = "done"
    /\ ~IsError(security_result)
    /\ ~IsError(security_result.liquidity_status)
    /\ ~chain.locker_tok["unicrypt"].ok
    /\ ~chain.locker_tok["pink_lock"].ok
    /\ Len(security_result.liquidity_status.lock_info) = 1
    /\ security_result.liquidity_status.lock_info[1].locker = "team_finance"
    /\ "pool" \in DOMAIN security_result.liquidity_status.lock_info[1]
    /\ security_result.liquidity_status.is_locked
    /\ security_result.security_score = 100

\* C16: a failing pair lookup on one factory loses only that pool: the
\* pairs the other factories answer are recorded with has_liquidity set,
\* the lockers are still queried, and the score counts the recorded
\* liquidity (+10 locked, -15 unlocked), not the absence of liquidity.
C16_DexFailureIsLocal ==
    (LiquidityChecked /\ config.web3
     /\ \E d \in Range(DexNames) : chain.factory[d] = "pair") =>
       LET ls == security_result.liquidity_status
       IN  /\ ~IsError(ls)
           /\ ls.has_liquidity
           /\ \A d \in Range(DexNames) :
                 chain.factory[d] = "pair" =>
                    \E i \in 1..Len(ls.pools) : ls.pools[i].dex = d
           /\ ls.lock_info =
                 CheckLiquidityLocks([NewLiquidityResult EXCEPT !.pools = ls.pools],
                                     chain.locker_tok, chain.locker_lp).lock_info
           /\ pcSec = "done" =>
                 security_result.security_score =
                    Clamp(FindingsScore(security_result)
                          + (IF ls.is_locked THEN 10 ELSE 0 - 15))

\* the lexical mode (code, line comment, block comment) in which the
\* character at position pos of s is read, scanning from position i; the
\* scan moves from one comment delimiter to the next
RECURSIVE LexFrom(_, _, _, _)
LexFrom(s, pos, i, mode) ==
    IF i >= pos THEN mode
    ELSE CASE mode = "code" ->
                 LET j == Find(s, <<"/">>, i)
                 IN  IF j = 0 - 1 \/ j >= pos THEN "code"
                     ELSE IF MatchAt(s, <<"/", "/">>, j) THEN LexFrom(s, pos, j + 2, "line")
                     ELSE IF MatchAt(s, <<"/", "*">>, j) THEN LexFrom(s, pos, j + 2, "block")
                     ELSE LexFrom(s, pos, j + 1, "code")
           [] mode = "line" ->
                 LET j == Find(s, <<"\n">>, i)
                 IN  IF j = 0 - 1 \/ j >= pos THEN "line"
                     ELSE LexFrom(s, pos, j + 1, "code")
           [] mode = "block" ->
                 LET j == Find(s, <<"*", "/">>, i)
                 IN  IF j = 0 - 1 \/ j >= pos THEN "block"
                     ELSE LexFrom(s, pos, j + 2, "code")

LexMode(s, pos) == LexFrom(s, pos, 0, "code")

\* every block comment of s is closed
CommentsClosed(s) == LexMode(s, Len(s)) # "block"

\* the positions at which sub occurs in s, letter case ignored
Occurrences(s, sub) ==
    {p \in 0..(Len(s) - Len(sub)) : MatchAt(LowerChars(s), LowerChars(sub), p)}

\* the source of the check, as characters
SourceChars == Chars(contract_source.text)

\* the detectors run, and the one at position at has acted
DetectorActed(at) ==
    /\ \E i \in 1..Len(DetectorOrder) :
          /\ DetectorOrder[i] = at
          /\ pcSec \in {DetectorOrder[j] : j \in (i + 1)..Len(DetectorOrder)}
    /\ ~IsError(security_result)
    /\ security_result.is_verified

\* C17: when every occurrence of a self-destruct fragment in the verified
\* source lies inside a line comment or inside a closed block comment,
\* however long the comment, _check_selfdestruct leaves has_self_destruct
\* false and adds no issue.
C17_CommentedSelfdestruct ==
    (/\ DetectorActed("selfdestruct")
     /\ CommentsClosed(SourceChars)
     /\ \A i \in 1..Len(selfdestruct_terms) :
           \A p \in Occurrences(SourceChars, selfdestruct_terms[i]) :
              LexMode(SourceChars, p) # "code")
       => /\ ~security_result.has_self_destruct
          /\ \A j \in 1..Len(security_result.issues) :
                security_result.issues[j] # "Contract contains selfdestruct function"

\* // occurs before position p on the line of p
PrecededBySlashes(s, p) ==
    \E q \in 0..(p - 2) :
       /\ MatchAt(s, <<"/", "/">>, q)
       /\ \A k \in (q + 1)..p : s[k] # "\n"

\* the context windows of the occurrences of needle from position p on
\* that are neither preceded by // on their line nor inside a block comment
RECURSIVE UncommentedFrom(_, _, _)
UncommentedFrom(s, needle, from) ==
    LET p == Find(LowerChars(s), LowerChars(needle), from)
    IN  IF p = 0 - 1 THEN <<>>
        ELSE (IF PrecededBySlashes(s, p) \/ LexMode(s, p) = "block"
              THEN <<>>
              ELSE <<Slice(s, Max(0, p - MatchContext),
                           Min(Len(s), p + Len(needle) + MatchContext))>>)
             \o UncommentedFrom(s, needle, p + Len(needle))

\* C18: _find_matches_excluding_comments returns one context window for
\* exactly the occurrences of the needle outside comments: none for an
\* occurrence preceded by // on its line or lying inside a block comment,
\* one for every other occurrence, in the order of the text.
C18_MatchesOutsideComments ==
    (DetectorActed("renounce") /\ CommentsClosed(SourceChars)) =>
       \A i \in 1..Len(renounce_patterns) :
          FindMatchesExcludingComments(SourceChars, renounce_patterns[i])
             = UncommentedFrom(SourceChars, renounce_patterns[i], 0)

\* what a function body does to the supply
SupplyChange(body) ==
    CASE body \in {"_burn(a);", "totalSupply -= a;"} -> "burn"
      [] body \in {"_mint(a);", "totalSupply += a;",
                   "/* internal */ totalSupply += a;",
                   "_mint(a); _burn(a); _burn(a);",
                   "_mint(a); _mint(a); _burn(a);"} -> "mint"
      [] OTHER -> "none"

\* the only supply-changing functions are burn functions, no function is
\* named after minting, no base contract is mintable
BurnOnlySource(source_code) ==
    /\ \A i \in 1..Len(source_code.functions) :
          LET f == source_code.functions[i]
          IN  /\ f.name \notin {"mint", "_mint"}
              /\ SupplyChange(f.body) # "none"
                    => (f.name \in {"burn", "_burn"} /\ SupplyChange(f.body) = "burn")
    /\ \A i \in 1..Len(source_code.bases) : source_code.bases[i] # "ERC20Mintable"

CheckedAgain == pcSec = "done" /\ previous # <<>>

\* C20: what check_token_security returns to a later check of the same
\* address, against the same chain and registry state, is what it returned
\* to the check before: the same findings, score, liquidity status and
\* issues, or the same error.
C20_SameResultAgain ==
    CheckedAgain => security_result = previous[Len(previous)]

\* a second check of a verified token has returned a report with a mint
\* finding, its issues and a lowered score
C20_Witness ==
    /\ CheckedAgain
    /\ ReportDone
    /\ security_result.is_verified
    /\ security_result.has_mint
    /\ security_result.issues # <<>>
    /\ security_result.security_score < 100


\* the owner _find_contract_owner ends with when nothing else runs in between
FindContractOwner(cfg, reg, ch) ==
    LET more(o) == ~StopsChain(o) /\ cfg.etherscan
        o1 == CheckOwnerMethods(erc20_abi, ch.getter)
        o2 == IF more(o1) THEN CheckSourceCodeForOwner(reg, ch.getter) ELSE o1
        o3 == IF more(o2) THEN CheckProxyImplementation(reg, ch.slot, ch.getter) ELSE o2
        o4 == IF more(o3) THEN CheckOwnershipEvents(reg) ELSE o3
    IN  IF more(o4) THEN CheckContractCreator(reg) ELSE o4

\* what get_token_information returns when it runs alone from start to end
GetTokenInformation(req, cfg, reg, ch) ==
    IF ~cfg.web3 THEN ErrorResult("Web3 connection not available")
    ELSE IF ~IsAddress(req.token_address)
    THEN ErrorResult("Invalid Ethereum address format")
    ELSE IF ch.code = "raise" THEN ErrorResult("get_code failed")
    ELSE LET ti == [address |-> req.token_address,
                    name |-> IF ch.metadata_ok THEN "name" ELSE "None",
                    symbol |-> IF ch.metadata_ok THEN "symbol" ELSE "None",
                    is_contract |-> "None", verified |-> "None",
                    owner |-> NoneV, owner_full |-> NoneV, owner_link |-> NoneV,
                    owner_html |-> NoneV]
             saved == SaveOwner(ti, FindContractOwner(cfg, reg, ch))
         IN  VerificationStatus(cfg, reg, [saved EXCEPT !.is_contract = "True"])

\* what _run_security_checks leaves in the dict when it runs alone
RunSecurityChecks(source, sr) ==
    LET d1 == CheckSelfdestruct(source, sr)
        d2 == CheckBlacklist(source, d1)
        d3 == CheckPauseFunction(source, d2)
        d4 == CheckRevokeFunctions(source, d3)
        d5 == CheckOwnershipRenouncing(source, d4)
        d6 == CheckMintCapability(source, d5)
    IN  CheckHoneypotIndicators(source, d6)

\* what check_token_security returns when it runs alone from start to end
CheckTokenSecurity(req, cfg, reg, ch) ==
    IF ~cfg.etherscan THEN ErrorResult("Etherscan API not configured")
    ELSE IF ~IsAddress(req.token_address)
    THEN ErrorResult("Invalid Ethereum address format")
    ELSE IF reg.lib_raises THEN ErrorResult("get_contract_source_code failed")
    ELSE LET sr == NewSecurityResult(
                      CheckLiquidityPools(cfg.web3, ch.factory, ch.locker_tok, ch.locker_lp))
             checked == IF IsVerified(reg)
                        THEN RunSecurityChecks(reg.source_info[1].SourceCode,
                                               [sr EXCEPT !.is_verified = TRUE])
                        ELSE UnverifiedBranch(sr)
         IN  [checked EXCEPT !.security_score = CalculateSecurityScore(checked)]

\* EthTokenChecker.check_token has returned
CheckerReturned == pcMain \in {"done", "shown"} /\ Lower(request.blockchain) \in checkers

\* the security task ran while the information task was waiting for its
\* first aiohttp answer
TasksInterleaved == \E i \in 1..Len(strategy_log) : strategy_log[i].strategy = "proxy"

\* C21: however the steps of the two tasks of EthTokenChecker.check_token
\* interleave, the combined result is the combination of what
\* get_token_information and check_token_security return when each runs
\* alone from start to end, which is the result of running them one after
\* the other in either order.
C21_InterleavingIsSequential ==
    CheckerReturned =>
        result = Combine(GetTokenInformation(request, config, registry, chain),
                         CheckTokenSecurity(request, config, registry, chain))

\* a successful check of a verified token whose security task ran in the
\* middle of the information task, which went on to find an owner
C21_Witness ==
    /\ CheckerReturned
    /\ TasksInterleaved
    /\ result.status = "success"
    /\ ~IsError(result.security)
    /\ result.security.is_verified
    /\ result.token.owner_full # NoneV


\* the sweep on the binding built from the registry's ABI yields no owner,
\* or there is no such binding
FullAbiSweepEmpty(reg, getter) ==
    LET info == reg.source_info[1]
    IN  (info.ABI.verified /\ info.ABI.parses)
           => CheckOwnerMethods(info.ABI.methods, getter) = NoneV

\* C22: when the getter sweeps yield no owner and the verified source
\* declares the owner as a literal address (in the constructor's
\* transferOwnership call of an Ownable contract, or as initializer of a
\* state variable named owner, admin, governance or _owner), the
\* source-text strategy returns that literal, whether or not the registry
\* has a verified ABI.
C22_SourceLiteralReturned ==
    \A i \in 1..Len(strategy_log) :
       (/\ strategy_log[i].strategy = "source_code"
        /\ ~registry.lib_raises
        /\ IsVerified(registry)
        /\ FullAbiSweepEmpty(registry, chain.getter)
        /\ SourceTextOwner(registry.source_info[1].SourceCode) # NoneV)
          => strategy_log[i].returned = SourceTextOwner(registry.source_info[1].SourceCode)


\* the events strategy was invoked and the registry answered with logs
EventsAnswered(i) ==
    /\ strategy_log[i].strategy = "events"
    /\ Usable(registry.api["events"])
    /\ Len(registry.logs) > 0

\* the addresses the logs of the model carry as new owner
LoggedOwners == {AddrC, AddrD, ZeroAddr}

\* C23: the events strategy reads only the last log of the sequence the
\* registry returned: it returns the address held in the last 20 bytes of
\* that log's third topic, whatever the earlier logs hold, and returns no
\* owner when the last log has fewer than three topics.
C23_LastLogDecides ==
    \A i \in 1..Len(strategy_log) :
       EventsAnswered(i) =>
          LET last == registry.logs[Len(registry.logs)]
          IN  /\ Len(last) < 3 => strategy_log[i].returned = NoneV
              /\ \A a \in LoggedOwners :
                    (Len(last) >= 3 /\ last[3] = Topic(a))
                       => strategy_log[i].returned = a

\* two logs whose new owners differ: the second one's is returned
C23_Witness ==
    \E i \in 1..Len(strategy_log) :
       /\ EventsAnswered(i)
       /\ registry.logs = <<TransferLog(AddrC), TransferLog(AddrD)>>
       /\ strategy_log[i].returned = AddrD

\* an earlier log with a new owner, a last log with two topics: no owner
C23_WitnessShortLog ==
    \E i \in 1..Len(strategy_log) :
       /\ EventsAnswered(i)
       /\ Len(registry.logs) = 2
       /\ Len(registry.logs[2]) < 3
       /\ strategy_log[i].returned = NoneV


\* C24: on each locker the lookup for a pool is independent of the lookup
\* for the token and of the lookups for the other pools: every positive
\* amount the locker answers for a recorded pool is an entry of lock_info
\* and sets is_locked, whichever other lookups on that locker fail.
C24_PoolLookupsIndependent ==
    (LiquidityChecked /\ config.web3
     /\ \A d \in Range(DexNames) : chain.factory[d] # "raise") =>
       LET ls == security_result.liquidity_status
       IN  \A l \in Range(LockerNames) :
           \A i \in 1..Len(ls.pools) :
              LET locked_lp == chain.locker_lp[l][ls.pools[i].dex]
              IN  (locked_lp.ok /\ locked_lp.val > 0) =>
                     /\ \E j \in 1..Len(ls.lock_info) :
                           ls.lock_info[j] = [locker |-> l, pool |-> ls.pools[i].dex,
                                              amount |-> locked_lp.val]
                     /\ ls.is_locked


\* C25: when a self-destruct fragment of the verified source starts at a
\* position that lies in no comment, _check_selfdestruct sets
\* has_self_destruct, whatever comment markers stand near it.
C25_UncommentedSelfdestruct ==
    (/\ DetectorActed("selfdestruct")
     /\ \E i \in 1..Len(selfdestruct_terms) :
           \E p \in Occurrences(SourceChars, selfdestruct_terms[i]) :
              LexMode(SourceChars, p) = "code")
       => security_result.has_self_destruct


\* every mint-named function is declared internal and no public or
\* external function calls it
MintNamesInternalOnly(functions) ==
    \A i \in 1..Len(functions) :
       HasMintName(FuncName(functions[i])) =>
          /\ functions[i].header = "internal"
          /\ ~IsInternalFunctionExposed(functions, FuncName(functions[i]))

\* C26: the name layer of the mint detector does not fire for a mint-named
\* function that is declared internal and is called from no public or
\* external function: when every mint-named function of the source is such
\* a function, has_mint is set only if the body layer or the inheritance
\* layer fires.
C26_InternalMintNotFlagged ==
    (DetectorActed("mint") /\ MintNamesInternalOnly(contract_source.functions)) =>
       /\ ~MintInNames(contract_source.functions)
       /\ security_result.has_mint =>
              \/ MintInBodies(contract_source.functions)
              \/ MintableInherited(contract_source.bases)


\* the idioms that increase the supply and the ones that decrease it; a
\* call of _mint or _burn is counted once, through mint( and burn(
mint_idioms ==
    <<<<"m", "i", "n", "t", "(">>,
      <<"t", "o", "t", "a", "l", "s", "u", "p", "p", "l", "y", " ", "+", "=">>,
      <<"t", "o", "t", "a", "l", "s", "u", "p", "p", "l", "y", ".", "a", "d", "d">>>>

burn_idioms ==
    <<<<"b", "u", "r", "n", "(">>,
      <<"d", "e", "s", "t", "r", "o", "y", "(">>,
      <<"t", "o", "t", "a", "l", "s", "u", "p", "p", "l", "y", " ", "-", "=">>,
      <<"t", "o", "t", "a", "l", "s", "u", "p", "p", "l", "y", ".", "s", "u", "b">>>>

\* the number of occurrences of the idioms in a body
RECURSIVE IdiomCount(_, _, _)
IdiomCount(body, idioms, k) ==
    IF k > Len(idioms) THEN 0
    ELSE Cardinality(Occurrences(body, idioms[k])) + IdiomCount(body, idioms, k + 1)

MintCount(f) == IdiomCount(FuncBody(f), mint_idioms, 1)
BurnCount(f) == IdiomCount(FuncBody(f), burn_idioms, 1)

\* only the body layer can fire, and in every body the burn idioms are at
\* least as many as the mint idioms
BurnsOutweigh(source_code) ==
    /\ \A i \in 1..Len(source_code.functions) :
          /\ ~HasMintName(FuncName(source_code.functions[i]))
          /\ MintCount(source_code.functions[i]) <= BurnCount(source_code.functions[i])
    /\ ~MintableInherited(source_code.bases)

\* C27: the body layer of the mint detector sets has_mint for a body that
\* holds both mint idioms and burn idioms only if the mint idioms are
\* strictly more than the burn idioms: a source in whose bodies the burn
\* idioms are at least as many as the mint idioms, and in which no other
\* layer fires, is not flagged.
C27_MintOutweighsBurn ==
    (DetectorActed("mint") /\ BurnsOutweigh(contract_source)) =>
       ~security_result.has_mint


\* the values of the sell-tax matches of the source of the check
SellTaxValues ==
    {ParseInt(contract_source.sell_matches[i]) :
        i \in 1..Len(contract_source.sell_matches)}

\* C28: when no fixed honeypot phrase matches, the numeric layer sets
\* is_honeypot if and only if one of the extracted sell-tax values is
\* strictly greater than 25: values of 25 or less do not flag, 26 does.
C28_SellTaxAbove25 ==
    (DetectorActed("honeypot") /\ ~contract_source.patterns.honeypot) =>
       (security_result.is_honeypot <=> \E v \in SellTaxValues : v >= 26)

\* the matches 25 and 26: flagged, with the issue of the value 26
C28_Witness ==
    /\ DetectorActed("honeypot")
    /\ ~contract_source.patterns.honeypot
    /\ contract_source.sell_matches = <<<<"2", "5">>, <<"2", "6">>>>
    /\ security_result.is_honeypot
    /\ security_result.issues = <<"Potential honeypot: High sell tax (26%)">>

\* the matches 25 and 025: not flagged
C28_WitnessAtLimit ==
    /\ DetectorActed("honeypot")
    /\ ~contract_source.patterns.honeypot
    /\ contract_source.sell_matches = <<<<"2", "5">>, <<"0", "2", "5">>>>
    /\ ~security_result.is_honeypot


\* the conditions of a report, in detection order, each with its flag
ConditionOrder ==
    <<"selfdestruct", "blacklist", "pause", "revoke", "mint", "honeypot">>

ConditionFlag(c) ==
    CASE c = "selfdestruct" -> "has_self_destruct"
      [] c = "blacklist" -> "has_blacklist"
      [] c = "pause" -> "has_pause"
      [] c = "revoke" -> "has_revoke"
      [] c = "mint" -> "has_mint"
      [] c = "honeypot" -> "is_honeypot"

\* the condition an issue text reports
ConditionOf(issue) ==
    CASE issue \in {"Contract source code not verified",
                    "Contract is not verified on Etherscan"} -> "unverified"
      [] issue = "Contract contains selfdestruct function" -> "selfdestruct"
      [] issue = "Contract contains blacklist/blocklist function" -> "blacklist"
      [] issue = "Contract can pause trading/transfers" -> "pause"
      [] issue = "Contract can revoke/revert transactions" -> "revoke"
      [] issue \in {"Contract contains function to mint additional tokens",
                    "Contract inherits from a mintable token contract"} -> "mint"
      [] issue \in {"Potential honeypot indicator found",
                    "Contract appears to be a honeypot"}
            \cup {HighTaxIssue(v) : v \in {25, 26, 90, 100}} -> "honeypot"
      [] OTHER -> "other"

\* the conditions a report triggers, in detection order
TriggeredConditions(sr) ==
    IF ~sr.is_verified THEN <<"unverified">>
    ELSE LET Triggered(c) == sr[ConditionFlag(c)]
         IN  SelectSeq(ConditionOrder, Triggered)

\* C29: the issues check_token returns hold exactly one entry per triggered
\* condition, in detection order: unverified alone, or self-destruct,
\* blacklist, pause, revoke, mint, honeypot for the flags that are set; no
\* condition is reported twice and none without its flag.
C29_OneIssuePerCondition ==
    (CheckerReturned /\ result.status = "success" /\ ~IsError(result.security)) =>
       [i \in 1..Len(result.issues) |-> ConditionOf(result.issues[i])]
          = TriggeredConditions(result.security)


\* check_liquidity_pools has returned a result that is not an error value
LiquidityReturned ==
    /\ LiquidityChecked
    /\ ~IsError(security_result.liquidity_status)

\* C30: in every liquidity status that is not an error value, whatever the
\* factory and locker calls did, has_liquidity is true exactly when pools
\* is non-empty, is_locked is true exactly when lock_info is non-empty, and
\* every lock_info entry that names a pool names one recorded in pools.
C30_LiquidityStatusConsistent ==
    LiquidityReturned =>
       LET ls == security_result.liquidity_status
       IN  /\ ls.has_liquidity <=> ls.pools # <<>>
           /\ ls.is_locked <=> ls.lock_info # <<>>
           /\ \A j \in 1..Len(ls.lock_info) :
                 "pool" \in DOMAIN ls.lock_info[j] =>
                    \E i \in 1..Len(ls.pools) : ls.pools[i].dex = ls.lock_info[j].pool

\* one pair, the token lookup of one locker fails, another locker answers
\* a locked pair and then fails on nothing: the status holds the pair and
\* the one lock
C30_Witness ==
    /\ LiquidityReturned
    /\ pcSec = "done"
    /\ \E l \in Range(LockerNames) : ~chain.locker_tok[l].ok
    /\ Len(security_result.liquidity_status.pools) = 1
    /\ Len(security_result.liquidity_status.lock_info) = 1
    /\ "pool" \in DOMAIN security_result.liquidity_status.lock_info[1]
    /\ security_result.liquidity_status.has_liquidity
    /\ security_result.liquidity_status.is_locked

====
